---- MODULE Spec2Model ----
(***************************************************************************)
(* State-machine model of the tiled navigation-layer cache sample          *)
(* (Sample_TempObstacles): the LinearAllocator scratch allocator, the      *)
(* handleBuild tile ingest, and the SaveData / loadAll persistence codec.  *)
(***************************************************************************)
EXTENDS Integers, Sequences, FiniteSets, TLC

(***************************************************************************)
(* Bounds of the model (not program constants).                            *)
(***************************************************************************)
\* Width, in bits, of size_t in the model: sizes are 0 .. 2^WordBits - 1.
WordBits == 3

\* Number of nav mesh definitions of the profile (GetNumNavMeshes()) is 1 .. MaxMeshes.
MaxMeshes == 2

\* The tile grid of the input geometry is tw x th with tw <= MaxTW, th <= MaxTH.
MaxTW == 2

MaxTH == 1

\* Most layers the layer partition finds in one tile.
MaxLayersFound == 5

\* Off-mesh connection and obstacle slots the model materialises per tile cache,
\* and convex volumes / nav hints of the input geometry.
MaxCons == 2

MaxObstacles == 1

MaxVolumes == 1

MaxHints == 1

\* How many times the model runs handleBuild, SaveData and loadAll, and how
\* many editing steps (tool clicks, update ticks) a run holds.
MaxBuilds == 1

MaxEdits == 2

MaxSaves == 1

MaxLoads == 1

\* The detailed tile cache: tiles in its row, obstacle slots, failed rebuilds
\* of one tile before the request is given up, and obstacle calls of a run.
CacheTiles == 2

CacheSlots == 2

RetryBound == 1

MaxCacheOps == 3

\* The codec: the longest raw buffer and the longest compressed stream given
\* to it, and the largest output buffer.
MaxRaw == 3

MaxStream == 3

MaxOut == 4

\* The rasterizer on its own: the most layers found in one tile and the
\* largest maxTiles argument, both beyond MAX_LAYERS.
MaxRasterLayers == 34

MaxTilesArg == 34

\* The null pointer.
NULL == 0

RECURSIVE Pow2(_)
Pow2(n) == IF n = 0 THEN 1 ELSE 2 * Pow2(n - 1)

\* size_t arithmetic is modulo SizeMod.
SizeMod == Pow2(WordBits)

Sizes == 0 .. (SizeMod - 1)

dtMax(a, b) == IF a > b THEN a ELSE b

VARIABLES
    m_talloc,    \* the LinearAllocator: [buffer, capacity, top, high]
    peak,        \* ghost: the largest value top has had since construction
    lastCall,    \* ghost: the last allocator call, its argument, the state before it and its result
    NumMeshes,   \* GetNumNavMeshes(): the number of nav mesh definitions
    m_geom,      \* the input geometry: grid, layers per tile, surface types, volumes, hints
    m_NavMeshArray, \* index -> [m_navMesh, m_tileCache, m_navQuery] (pointers)
    heap,        \* live objects: pointer -> nav mesh / tile cache / query
    nextId,      \* the next pointer value an allocation returns
    sample,      \* other members of the sample: m_navMesh, m_tileCache, the m_cache... statistics
    file,        \* the .nav file on disk: a sequence of written records (<<>>: none)
    ghost,       \* history: what the last handler did, the snapshot at save time, op counts
    tcache,      \* one tile cache in detail: obstacles, dirty queue, retries, nav mesh tiles
    tchist,      \* ghost: the history of that tile cache's queue and rebuilds
    codec,       \* one use of the FastLZCompressor: its inputs, then its outputs
    raster,      \* one call of rasterizeTileLayers: its inputs, then its outputs
    tool,        \* the OffMeshConnectionTool and the sample it edits
    detail,      \* one call of drawDetail: its position and its allocator events
    offs         \* the tileCacheOffsets table of one SaveData or loadAll call

allocVars == <<m_talloc, peak, lastCall>>

sampleVars == <<NumMeshes, m_geom, m_NavMeshArray, heap, nextId, sample, file, ghost>>

cacheVars == <<tcache, tchist>>

\* The variables of the tool, the debug drawing and the offsets table.
uiVars == <<tool, detail, offs>>

\* The variables of the models that stand beside the allocator and the sample.
auxVars == <<cacheVars, codec, raster, uiVars>>

vars == <<m_talloc, peak, lastCall, NumMeshes, m_geom, m_NavMeshArray, heap, nextId,
          sample, file, ghost, tcache, tchist, codec, raster, tool, detail, offs>>

(***************************************************************************)
(* LinearAllocator                                                         *)
(***************************************************************************)
\* resize(cap): buffer = dtAlloc(cap) (FALSE stands for a null buffer), capacity = cap.
resize(a, cap, allocOk) == [a EXCEPT !.buffer = allocOk, !.capacity = cap]

\* LinearAllocator(cap): buffer(0), capacity(0), top(0), high(0), then resize(cap).
LinearAllocator(cap, allocOk) ==
    resize([buffer |-> FALSE, capacity |-> 0, top |-> 0, high |-> 0], cap, allocOk)

\* reset(): high = dtMax(high, top); top = 0.
reset(a) == [a EXCEPT !.high = dtMax(a.high, a.top), !.top = 0]

\* A seeded fault of alloc: the capacity test is left out.
alloc_NoCapacityCheck(a, size) ==
    IF ~a.buffer
    THEN [ok |-> FALSE, off |-> 0, a |-> a]
    ELSE [ok |-> TRUE, off |-> a.top, a |-> [a EXCEPT !.top = (a.top + size) % SizeMod]]

\* alloc(size): null when there is no buffer or when top+size (computed in
\* size_t, so modulo SizeMod) exceeds capacity; else &buffer[top], top += size.
alloc(a, size) ==
    IF ~a.buffer
    THEN [ok |-> FALSE, off |-> 0, a |-> a]
    ELSE IF (a.top + size) % SizeMod > a.capacity
    THEN [ok |-> FALSE, off |-> 0, a |-> a]
    ELSE [ok |-> TRUE, off |-> a.top, a |-> [a EXCEPT !.top = (a.top + size) % SizeMod]]

\* free(ptr): empty.
free(a) == a

(***************************************************************************)
(* Program constants.                                                      *)
(***************************************************************************)
EXPECTED_LAYERS_PER_TILE == 4

MAX_LAYERS == 32

\* 'T'<<24 | 'S'<<16 | 'E'<<8 | 'T'
TILECACHESET_MAGIC == 84 * Pow2(24) + 83 * Pow2(16) + 69 * Pow2(8) + 84

TILECACHESET_VERSION == 4

\* tcparams.maxObstacles and tcparams.maxOffMeshConnections of handleBuild.
TcMaxObstacles == 128

TcMaxOffMeshConnections == 512

\* m_tileSize, and dtAlign4(sizeof(dtTileCacheLayerHeader)).
TileSize == 48

LayerHeaderSize == 56

\* The radius loadAll passes for every connection it reads.
LoadedConRadius == 10

rcMin(a, b) == IF a < b THEN a ELSE b

calcLayerBufferSize(gridWidth, gridHeight) == LayerHeaderSize + (gridWidth * gridHeight) * 4

(***************************************************************************)
(* Sequence helpers.                                                       *)
(***************************************************************************)
Range(seq) == {seq[k] : k \in DOMAIN seq}

\* The elements of a table indexed from 1, as a sequence.
Elems(table) == [k \in 1 .. Len(table) |-> table[k]]

(***************************************************************************)
(* The tile cache (dtTileCache) and the nav mesh (dtNavMesh), their        *)
(* behaviour as the design document gives it.                              *)
(***************************************************************************)
EmptyCon == [state |-> "EMPTY", spos |-> 0, epos |-> 0, rad |-> 0, area |-> 0,
             flags |-> 0, bBiDir |-> 0]

EmptyObstacle == [state |-> "EMPTY", pos |-> 0]

\* A connection that takes part in the mesh: neither EMPTY nor REMOVING.
ConActive(con) == ~(con.state = "EMPTY" \/ con.state = "REMOVING")

\* dtAllocTileCache() followed by init(&params, ...): no tile, every obstacle
\* and connection slot EMPTY.  Only the first MaxObstacles / MaxCons slots are
\* materialised.
TileCacheInit(params) ==
    [kind |-> "tilecache", params |-> params, tiles |-> <<>>,
     obstacles |-> [k \in 1 .. MaxObstacles |-> EmptyObstacle],
     offMesh |-> [k \in 1 .. MaxCons |-> EmptyCon]]

\* dtAllocNavMesh() followed by init(&params): no tile built, no link.
NavMeshInit(params) ==
    [kind |-> "navmesh", params |-> params, tiles |-> {}, links |-> {}]

\* dtAllocNavMeshQuery(); init(mesh, 2048) binds it to a nav mesh.
NavQueryAlloc == [kind |-> "query", mesh |-> NULL]

\* The tile coordinate (tx, ty, tlayer) stored uncompressed at the head of a
\* compressed tile's data.
TileCoord(data) == <<data[1], data[2], data[3]>>

\* addTile(data, dataSize, flags): CapacityError, the store unchanged, when the
\* store holds maxTiles tiles; else the tile takes the next free slot.
addTile(tc, data) ==
    IF Len(tc.tiles) >= tc.params.maxTiles
    THEN [ok |-> FALSE, ref |-> <<0, 0>>, tc |-> tc]
    ELSE [ok |-> TRUE, ref |-> <<1, Len(tc.tiles) + 1>>,
          tc |-> [tc EXCEPT !.tiles = Append(tc.tiles, data)]]

\* getTileRef(tile): the handle (salt, slot) of a stored tile; salt starts at 1.
getTileRef(tc, slot) == <<1, slot>>

\* buildNavMeshTile(ref, navmesh): the tile's polygon mesh replaces the nav
\* mesh's tile at its coordinate.
buildNavMeshTile(tc, ref, nm) == [nm EXCEPT !.tiles = @ \cup {TileCoord(tc.tiles[ref[2]])}]

\* buildNavMeshTilesAt(x, y, navmesh): every layer stored at (x, y).
buildNavMeshTilesAt(tc, x, y, nm) ==
    [nm EXCEPT !.tiles = @ \cup {TileCoord(tc.tiles[k]) : k \in
                {j \in DOMAIN tc.tiles : tc.tiles[j][1] = x /\ tc.tiles[j][2] = y}}]

FreeConSlots(tc) == {k \in DOMAIN tc.offMesh : tc.offMesh[k].state = "EMPTY"}

Min(S) == CHOOSE x \in S : \A y \in S : x <= y

\* addOffMeshConnection(spos, epos, rad, area, flags, bBiDir): CapacityError when
\* no slot is free; else the first free slot holds the connection, DIRTY.
tcAddOffMeshConnection(tc, spos, epos, rad, area, flags, bBiDir) ==
    IF FreeConSlots(tc) = {} THEN tc
    ELSE [tc EXCEPT !.offMesh[Min(FreeConSlots(tc))] =
            [state |-> "DIRTY", spos |-> spos, epos |-> epos, rad |-> rad,
             area |-> area, flags |-> flags, bBiDir |-> bBiDir]]

\* removeOffMeshConnection(ref): the connection goes to REMOVING.
tcRemoveOffMeshConnection(tc, k) ==
    IF tc.offMesh[k].state = "EMPTY" THEN tc
    ELSE [tc EXCEPT !.offMesh[k].state = "REMOVING"]

FreeObstacleSlots(tc) == {k \in DOMAIN tc.obstacles : tc.obstacles[k].state = "EMPTY"}

\* addObstacle(pos, radius, height, area): EMPTY -> PROCESSING in a free slot.
tcAddObstacle(tc, pos) ==
    IF FreeObstacleSlots(tc) = {} THEN tc
    ELSE [tc EXCEPT !.obstacles[Min(FreeObstacleSlots(tc))] =
            [state |-> "PROCESSING", pos |-> pos]]

\* removeObstacle(ref): PROCESSING / PROCESSED -> REMOVING.
tcRemoveObstacle(tc, k) ==
    IF tc.obstacles[k].state \in {"PROCESSING", "PROCESSED"}
    THEN [tc EXCEPT !.obstacles[k].state = "REMOVING"]
    ELSE tc

\* update(dt, navmesh), the queue drained: PROCESSING obstacles become
\* PROCESSED, REMOVING ones EMPTY; DIRTY connections are connected to the nav
\* mesh, REMOVING ones become EMPTY.
tcUpdate(tc) ==
    [tc EXCEPT
        !.obstacles = [k \in DOMAIN tc.obstacles |->
            IF tc.obstacles[k].state = "PROCESSING"
            THEN [tc.obstacles[k] EXCEPT !.state = "PROCESSED"]
            ELSE IF tc.obstacles[k].state = "REMOVING" THEN EmptyObstacle
            ELSE tc.obstacles[k]],
        !.offMesh = [k \in DOMAIN tc.offMesh |->
            IF tc.offMesh[k].state = "DIRTY"
            THEN [tc.offMesh[k] EXCEPT !.state = "CONNECTED"]
            ELSE IF tc.offMesh[k].state = "REMOVING" THEN EmptyCon
            ELSE tc.offMesh[k]]]

nmUpdate(tc, nm) ==
    [nm EXCEPT !.links = {k \in DOMAIN tc.offMesh : tc.offMesh[k].state \in {"DIRTY", "CONNECTED"}}]

(***************************************************************************)
(* The heap: pointers are positive integers, a freed object leaves heap.   *)
(***************************************************************************)
\* A handler's view of the program state, threaded through its statements.
Now == [arr |-> m_NavMeshArray, heap |-> heap, nextId |-> nextId, geom |-> m_geom,
        sample |-> sample, log |-> <<>>]

Live(st, p) == p \in DOMAIN st.heap

\* dtAlloc...(): a fresh object; the pointer returned is st.nextId.
New(st, obj) ==
    [st EXCEPT !.heap = [q \in DOMAIN st.heap \cup {st.nextId} |->
                            IF q = st.nextId THEN obj ELSE st.heap[q]],
               !.nextId = st.nextId + 1]

\* dtFree...(p): nothing for a null pointer; the pointer variable keeps its value.
Free(st, p) ==
    IF p = NULL THEN st
    ELSE [st EXCEPT !.heap = [q \in DOMAIN st.heap \ {p} |-> st.heap[q]]]

\* Every pointer of the array is null or refers to a live object.
NoDangling(st) ==
    \A i \in DOMAIN st.arr :
        /\ st.arr[i].m_navMesh = NULL \/ Live(st, st.arr[i].m_navMesh)
        /\ st.arr[i].m_tileCache = NULL \/ Live(st, st.arr[i].m_tileCache)
        /\ st.arr[i].m_navQuery = NULL \/ Live(st, st.arr[i].m_navQuery)


SetPtr(st, i, field, p) == [st EXCEPT !.arr[i][field] = p]

SetObj(st, p, obj) == [st EXCEPT !.heap[p] = obj]

(***************************************************************************)
(* The input geometry (InputGeom).                                         *)
(***************************************************************************)
ZeroVolume == [NavMeshIndex |-> 0, area |-> 0]

ZeroHint == [NavMeshIndex |-> 0, hintType |-> 0]

\* vols[i] / hints[i] of the arrays getConvexVolumes() / getNavHints() return:
\* entries past the count are the array's zero-initialised slots.
VolAt(geom, i) == IF i + 1 <= Len(geom.volumes) THEN geom.volumes[i + 1] ELSE ZeroVolume

HintAt(geom, i) == IF i + 1 <= Len(geom.hints) THEN geom.hints[i + 1] ELSE ZeroHint

\* m_geom->addConvexVolume(NavMeshIndex, verts, nverts, hmin, hmax, area)
geomAddConvexVolume(geom, i, area) ==
    [geom EXCEPT !.volumes = Append(@, [NavMeshIndex |-> i, area |-> area])]

\* m_geom->addNavHint(NavMeshIndex, position, hintType)
geomAddNavHint(geom, i, hintType) ==
    [geom EXCEPT !.hints = Append(@, [NavMeshIndex |-> i, hintType |-> hintType])]

(***************************************************************************)
(* rasterizeTileLayers and handleBuild.                                    *)
(***************************************************************************)
\* The compressed payload dtBuildTileCacheLayer produces for layer i of tile
\* (tx, ty) of mesh mi: one or two non-zero bytes that depend on the layer.
LayerPayload(mi, tx, ty, i) ==
    IF (mi + tx + ty + i) % 2 = 0 THEN <<7>> ELSE <<8, 9>>

\* One TileCacheData: the header's tile coordinate, then the payload.
LayerData(mi, tx, ty, i) ==
    LET d == <<tx, ty, i>> \o LayerPayload(mi, tx, ty, i)
    IN  [data |-> d, dataSize |-> Len(d)]

\* A seeded fault of rasterizeTileLayers: every layer built is handed over,
\* whatever room the caller has.
rasterizeTileLayers_IgnoresMaxTiles(geom, mi, tx, ty, maxTiles) ==
    LET ntiles == rcMin(geom.nlayers, MAX_LAYERS)
    IN  [k \in 1 .. ntiles |-> LayerData(mi, tx, ty, k - 1)]

\* rasterizeTileLayers(NavMeshIndex, tx, ty, cfg, tiles, maxTiles): the layers
\* found are built up to MAX_LAYERS, of which min(ntiles, maxTiles) are handed
\* to the caller; layer i carries (tx, ty, i).
rasterizeTileLayers(geom, mi, tx, ty, maxTiles) ==
    LET ntiles == rcMin(geom.nlayers, MAX_LAYERS)
        n == rcMin(ntiles, maxTiles)
    IN  [k \in 1 .. n |-> LayerData(mi, tx, ty, k - 1)]

\* A seeded fault of the ingest step: a rejected layer is counted all the same.
IngestTile_CountsRejected(b, tile) ==
    LET r == addTile(b.tc, tile.data)
        entry == [coord |-> TileCoord(tile.data), dataSize |-> tile.dataSize, ok |-> r.ok,
                  before |-> Len(b.tc.tiles), storeSame |-> (r.tc = b.tc), freed |-> ~r.ok]
    IN  [tc |-> r.tc,
         m_cacheLayerCount |-> b.m_cacheLayerCount + 1,
         m_cacheCompressedSize |-> b.m_cacheCompressedSize + tile.dataSize,
         m_cacheRawSize |-> b.m_cacheRawSize
                            + calcLayerBufferSize(b.tc.params.width, b.tc.params.height),
         log |-> Append(b.log, entry)]

\* One pass of handleBuild's inner loop: addTile; on failure the buffer is
\* freed and the loop continues; on success the three counters grow.  The log
\* entry records what the pass did with the buffer.
IngestTile(b, tile) ==
    LET r == addTile(b.tc, tile.data)
        entry == [coord |-> TileCoord(tile.data), dataSize |-> tile.dataSize, ok |-> r.ok,
                  before |-> Len(b.tc.tiles), storeSame |-> (r.tc = b.tc), freed |-> ~r.ok]
    IN  IF ~r.ok
        THEN [b EXCEPT !.log = Append(b.log, entry)]
        ELSE [tc |-> r.tc,
              m_cacheLayerCount |-> b.m_cacheLayerCount + 1,
              m_cacheCompressedSize |-> b.m_cacheCompressedSize + tile.dataSize,
              m_cacheRawSize |-> b.m_cacheRawSize
                                 + calcLayerBufferSize(b.tc.params.width, b.tc.params.height),
              log |-> Append(b.log, entry)]

RECURSIVE IngestTiles(_, _)
IngestTiles(b, tiles) ==
    IF tiles = <<>> THEN b ELSE IngestTiles(IngestTile(b, Head(tiles)), Tail(tiles))

\* The tiles of the grid in the order of the loops "for y < th, for x < tw".
GridSeq(tw, th) == [k \in 1 .. (tw * th) |-> <<(k - 1) % tw, (k - 1) \div tw>>]

RECURSIVE IngestGrid(_, _, _, _)
IngestGrid(b, geom, mi, cells) ==
    IF cells = <<>> THEN b
    ELSE IngestGrid(
            IngestTiles(b, rasterizeTileLayers(geom, mi, Head(cells)[1], Head(cells)[2],
                                               MAX_LAYERS)),
            geom, mi, Tail(cells))

RECURSIVE BuildAllTilesAt(_, _, _)
BuildAllTilesAt(tc, nm, cells) ==
    IF cells = <<>> THEN nm
    ELSE BuildAllTilesAt(tc, buildNavMeshTilesAt(tc, Head(cells)[1], Head(cells)[2], nm),
                         Tail(cells))

\* The connections of a cache that are neither EMPTY nor REMOVING, in slot order.
ActiveCons(tc) == SelectSeq(Elems(tc.offMesh), ConActive)

\* A seeded fault of the re-add loop: every connection is added one-way.
RECURSIVE ReaddConnections_OneWay(_, _)
ReaddConnections_OneWay(tc, cons) ==
    IF cons = <<>> THEN tc
    ELSE ReaddConnections_OneWay(
            tcAddOffMeshConnection(tc, Head(cons).spos, Head(cons).epos, Head(cons).rad,
                                   Head(cons).area, Head(cons).flags, 0),
            Tail(cons))

\* The re-add loop of handleBuild: addOffMeshConnection for every connection
\* copied from the previous cache, in order.
RECURSIVE ReaddConnections(_, _)
ReaddConnections(tc, cons) ==
    IF cons = <<>> THEN tc
    ELSE ReaddConnections(
            tcAddOffMeshConnection(tc, Head(cons).spos, Head(cons).epos, Head(cons).rad,
                                   Head(cons).area, Head(cons).flags, Head(cons).bBiDir),
            Tail(cons))

RECURSIVE dtNextPow2(_)
dtNextPow2(v) == IF v <= 1 THEN 1 ELSE 2 * dtNextPow2((v + 1) \div 2)

\* m_maxTiles of handleSettings: 1 << min(ilog2(nextPow2(tw*th*EXPECTED_LAYERS_PER_TILE)), 14)
m_maxTiles(geom) == rcMin(dtNextPow2(geom.tw * geom.th * EXPECTED_LAYERS_PER_TILE), Pow2(14))

\* The body of handleBuild's loop for nav mesh definition mi.
BuildMesh(st, mi) ==
    LET e0 == st.arr[mi]
        \* the query is allocated when there is none
        st1 == IF e0.m_navQuery = NULL
               THEN SetPtr(New(st, NavQueryAlloc), mi, "m_navQuery", st.nextId)
               ELSE st
        ConnectionsToReadd == IF e0.m_tileCache # NULL
                              THEN ActiveCons(st.heap[e0.m_tileCache])
                              ELSE <<>>
        tcparams == [width |-> TileSize, height |-> TileSize,
                     maxTiles |-> st.geom.tw * st.geom.th * EXPECTED_LAYERS_PER_TILE,
                     maxObstacles |-> TcMaxObstacles,
                     maxOffMeshConnections |-> TcMaxOffMeshConnections]
        st2 == Free(st1, e0.m_tileCache)
        tcPtr == st2.nextId
        st3 == SetPtr(New(st2, TileCacheInit(tcparams)), mi, "m_tileCache", tcPtr)
        st4 == Free(st3, e0.m_navMesh)
        nmPtr == st4.nextId
        st5 == SetPtr(New(st4, NavMeshInit([maxTiles |-> m_maxTiles(st.geom)])),
                      mi, "m_navMesh", nmPtr)
        qPtr == st5.arr[mi].m_navQuery
        st6 == SetObj(st5, qPtr, [st5.heap[qPtr] EXCEPT !.mesh = nmPtr])
        cells == GridSeq(st.geom.tw, st.geom.th)
        b == IngestGrid([tc |-> st6.heap[tcPtr], m_cacheLayerCount |-> 0,
                         m_cacheCompressedSize |-> 0, m_cacheRawSize |-> 0, log |-> <<>>],
                        st.geom, mi, cells)
        nm == BuildAllTilesAt(b.tc, st6.heap[nmPtr], cells)
        tc == ReaddConnections(b.tc, ConnectionsToReadd)
        st7 == SetObj(SetObj(st6, tcPtr, tc), nmPtr, nm)
    IN  [st7 EXCEPT !.sample.m_cacheLayerCount = b.m_cacheLayerCount,
                    !.sample.m_cacheCompressedSize = b.m_cacheCompressedSize,
                    !.sample.m_cacheRawSize = b.m_cacheRawSize,
                    !.log = b.log]

RECURSIVE BuildMeshes(_, _, _)
BuildMeshes(st, mi, n) ==
    IF mi >= n THEN st ELSE BuildMeshes(BuildMesh(st, mi), mi + 1, n)

\* handleBuild(): every nav mesh definition in turn, then the statistics.
handleBuild(st, n, talloc) ==
    [BuildMeshes(st, 0, n) EXCEPT !.sample.m_cacheBuildMemUsage = talloc.high % SizeMod]


(***************************************************************************)
(* SaveData.  The file is the sequence of the records written: a record    *)
(* is one fwrite, ftell() is the number of records before the position.    *)
(***************************************************************************)
\* The stored tiles of a cache that SaveData counts and writes: those with a
\* header and a non-zero dataSize, in slot order.
SavedSlots(tc) == {k \in DOMAIN tc.tiles : Len(tc.tiles[k]) # 0}

\* A seeded fault of the tile records: the data block is written without its
\* last byte.
TileRecords_DropsByte(tc, k) ==
    << [kind |-> "tilehdr", tileRef |-> getTileRef(tc, k), dataSize |-> Len(tc.tiles[k])],
       [kind |-> "data", bytes |-> SubSeq(tc.tiles[k], 1, Len(tc.tiles[k]) - 1)] >>

\* The two records of one stored tile: TileCacheTileHeader, then the data.
TileRecords(tc, k) ==
    << [kind |-> "tilehdr", tileRef |-> getTileRef(tc, k), dataSize |-> Len(tc.tiles[k])],
       [kind |-> "data", bytes |-> tc.tiles[k]] >>

RECURSIVE AllTileRecords(_, _)
AllTileRecords(tc, k) ==
    IF k > Len(tc.tiles) THEN <<>>
    ELSE (IF k \in SavedSlots(tc) THEN TileRecords(tc, k) ELSE <<>>)
         \o AllTileRecords(tc, k + 1)

\* The first connection loop of SaveData: every active connection is unlinked
\* from the nav mesh and set DIRTY.
SaveMarkCons(tc) ==
    [tc EXCEPT !.offMesh = [k \in DOMAIN tc.offMesh |->
        IF ConActive(tc.offMesh[k]) THEN [tc.offMesh[k] EXCEPT !.state = "DIRTY"]
        ELSE tc.offMesh[k]]]

SaveUnlinkCons(tc, nm) ==
    [nm EXCEPT !.links = @ \ {k \in DOMAIN tc.offMesh : ConActive(tc.offMesh[k])}]

\* A seeded fault of the connection records: every connection that is not
\* EMPTY is written, REMOVING ones included.
ConRecords_WritesRemoving(tc) ==
    LET present == SelectSeq(Elems(tc.offMesh), LAMBDA con : con.state # "EMPTY")
    IN  [k \in DOMAIN present |-> [kind |-> "con", def |-> present[k]]]

\* The connection records written: the active connections, whole structs.
ConRecords(tc) ==
    [k \in DOMAIN ActiveCons(tc) |-> [kind |-> "con", def |-> ActiveCons(tc)[k]]]

\* The convex volume loops of SaveData run ii over the volumes but test and
\* write vols[i], i the tile cache index: the count is all or nothing.
SaveNumConvexVols(geom, i) ==
    IF VolAt(geom, i).NavMeshIndex # i THEN 0 ELSE Len(geom.volumes)

VolRecords(geom, i) ==
    [k \in 1 .. SaveNumConvexVols(geom, i) |-> [kind |-> "vol", def |-> VolAt(geom, i)]]

\* The nav hint loops have the same shape.
SaveNumNavHints(geom, i) ==
    IF HintAt(geom, i).NavMeshIndex # i THEN 0 ELSE Len(geom.hints)

HintRecords(geom, i) ==
    [k \in 1 .. SaveNumNavHints(geom, i) |-> [kind |-> "hint", def |-> HintAt(geom, i)]]

\* The body of SaveData's loop for tile cache i; w = [st, recs, offsets].
SaveMesh(w, i) ==
    LET tcPtr == w.st.arr[i].m_tileCache
        nmPtr == w.st.arr[i].m_navMesh
        tc0 == w.st.heap[tcPtr]
        offset == Len(w.recs)
        tc == SaveMarkCons(tc0)
        nm == SaveUnlinkCons(tc0, w.st.heap[nmPtr])
        tileRecs == AllTileRecords(tc, 1)
        conRecs == ConRecords(tc)
        volRecs == VolRecords(w.st.geom, i)
        hintRecs == HintRecords(w.st.geom, i)
        tcHeader == [kind |-> "set",
                     magic |-> TILECACHESET_MAGIC,
                     version |-> TILECACHESET_VERSION,
                     numTiles |-> Cardinality(SavedSlots(tc)),
                     meshParams |-> nm.params,
                     cacheParams |-> tc.params,
                     NumOffMeshCons |-> Cardinality({k \in DOMAIN tc0.offMesh :
                                                        ConActive(tc0.offMesh[k])}),
                     OffMeshConsOffset |-> offset + 1 + Len(tileRecs),
                     NumConvexVols |-> SaveNumConvexVols(w.st.geom, i),
                     ConvexVolsOffset |-> offset + 1 + Len(tileRecs) + Len(conRecs),
                     NumNavHints |-> SaveNumNavHints(w.st.geom, i),
                     NavHintsOffset |-> offset + 1 + Len(tileRecs) + Len(conRecs)
                                        + Len(volRecs)]
    IN  [st |-> SetObj(SetObj(w.st, tcPtr, tc), nmPtr, nm),
         recs |-> w.recs \o <<tcHeader>> \o tileRecs \o conRecs \o volRecs \o hintRecs,
         offsets |-> [w.offsets EXCEPT ![i] = offset]]

RECURSIVE SaveMeshes(_, _, _)
SaveMeshes(w, i, n) ==
    IF i >= n THEN w ELSE SaveMeshes(SaveMesh(w, i), i + 1, n)

\* SaveData(path), the file opened: the export header, the surface types, one
\* set per tile cache, and the export header written again with the offsets.
SaveData(st, n) ==
    LET surfRecs == IF Len(st.geom.surfTypes) = 0 THEN <<>>
                    ELSE << [kind |-> "surf", types |-> st.geom.surfTypes] >>
        w == SaveMeshes([st |-> st,
                         recs |-> << [kind |-> "export"] >> \o surfRecs,
                         offsets |-> [k \in 0 .. 7 |-> 0]], 0, n)
        NewFileHeader == [kind |-> "export",
                          magic |-> TILECACHESET_MAGIC,
                          version |-> TILECACHESET_VERSION,
                          numTileCaches |-> n,
                          tileCacheDataOffset |-> 1 + Len(surfRecs),
                          tileCacheOffsets |-> w.offsets,
                          NumSurfTypes |-> Len(st.geom.surfTypes),
                          SurfTypesOffset |-> 1]
    IN  [st |-> w.st, file |-> [w.recs EXCEPT ![1] = NewFileHeader]]


(***************************************************************************)
(* loadAll.                                                                *)
(***************************************************************************)
\* fread of one record at offset off: it succeeds when the file holds a whole
\* record there.
CanRead(f, off) == off + 1 \in DOMAIN f

RecAt(f, off) == f[off + 1]

\* A seeded fault of the export header test: the version is not compared.
ExportHeaderAccepted_NoVersion(f) ==
    /\ CanRead(f, 0)
    /\ RecAt(f, 0).magic = TILECACHESET_MAGIC

\* The export header is read in full and its magic and version are the
\* expected ones; any other file makes loadAll return at once.
ExportHeaderAccepted(f) ==
    /\ CanRead(f, 0)
    /\ RecAt(f, 0).magic = TILECACHESET_MAGIC
    /\ RecAt(f, 0).version = TILECACHESET_VERSION

\* fseek(SurfTypesOffset); fread(surfTypes); SetTriangleArea(i, surfTypes[i]).
LoadSurfTypes(st, f) ==
    LET hdr == RecAt(f, 0)
    IN  IF hdr.NumSurfTypes = 0 \/ ~CanRead(f, hdr.SurfTypesOffset) THEN st
        ELSE [st EXCEPT !.geom.surfTypes =
                [k \in DOMAIN st.geom.surfTypes |->
                    IF k <= hdr.NumSurfTypes
                    THEN RecAt(f, hdr.SurfTypesOffset).types[k]
                    ELSE st.geom.surfTypes[k]]]

\* dtFreeNavMesh, dtFreeTileCache, dtFreeNavMeshQuery of entry i: the three
\* pointers keep their values.
FreeSetTargets(st, i) ==
    Free(Free(Free(st, st.arr[i].m_navMesh), st.arr[i].m_tileCache), st.arr[i].m_navQuery)

\* A seeded fault of the allocation step: the obstacles of the tile cache
\* that entry i held when the load began are carried into the new one.
AllocSetTargets_KeepsObstacles(st, i, tcHeader) ==
    LET nmPtr == st.nextId
        s1 == SetPtr(New(st, NavMeshInit(tcHeader.meshParams)), i, "m_navMesh", nmPtr)
        tcPtr == s1.nextId
        old == m_NavMeshArray[i].m_tileCache
        fresh == TileCacheInit(tcHeader.cacheParams)
        s2 == SetPtr(New(s1, IF old \in DOMAIN heap
                             THEN [fresh EXCEPT !.obstacles = heap[old].obstacles]
                             ELSE fresh), i, "m_tileCache", tcPtr)
        qPtr == s2.nextId
    IN  SetPtr(New(s2, NavQueryAlloc), i, "m_navQuery", qPtr)

\* dtAllocNavMesh, dtAllocTileCache, dtAllocNavMeshQuery, then the two init
\* calls with the parameters of the set header (allocation succeeds).
AllocSetTargets(st, i, tcHeader) ==
    LET nmPtr == st.nextId
        s1 == SetPtr(New(st, NavMeshInit(tcHeader.meshParams)), i, "m_navMesh", nmPtr)
        tcPtr == s1.nextId
        s2 == SetPtr(New(s1, TileCacheInit(tcHeader.cacheParams)), i, "m_tileCache", tcPtr)
        qPtr == s2.nextId
    IN  SetPtr(New(s2, NavQueryAlloc), i, "m_navQuery", qPtr)

\* One pass of the "Read tiles" loop; r = [st, off, stop, abort].  A short
\* read of the tile header goes on with the next pass, a zero tileRef or
\* dataSize leaves the loop, a short read of the data leaves loadAll.
ReadTile(r, i, f) ==
    IF ~CanRead(f, r.off) THEN r
    ELSE LET tileHeader == RecAt(f, r.off) IN
         IF tileHeader.tileRef = <<0, 0>> \/ tileHeader.dataSize = 0
         THEN [r EXCEPT !.off = r.off + 1, !.stop = TRUE]
         ELSE IF ~CanRead(f, r.off + 1)
                 \/ Len(RecAt(f, r.off + 1).bytes) < tileHeader.dataSize
         THEN [r EXCEPT !.off = r.off + 1, !.stop = TRUE, !.abort = TRUE]
         ELSE LET data == SubSeq(RecAt(f, r.off + 1).bytes, 1, tileHeader.dataSize)
                  tcPtr == r.st.arr[i].m_tileCache
                  nmPtr == r.st.arr[i].m_navMesh
                  a == addTile(r.st.heap[tcPtr], data)
                  s1 == SetObj(r.st, tcPtr, a.tc)
                  s2 == IF a.ref # <<0, 0>>
                        THEN SetObj(s1, nmPtr, buildNavMeshTile(a.tc, a.ref, s1.heap[nmPtr]))
                        ELSE s1
              IN  [r EXCEPT !.st = s2, !.off = r.off + 2]

RECURSIVE ReadTiles(_, _, _, _)
ReadTiles(r, i, f, left) ==
    IF left = 0 \/ r.stop THEN r ELSE ReadTiles(ReadTile(r, i, f), i, f, left - 1)

\* One pass of the connection loop: fread(&def); addOffMeshConnection(
\* &def.pos[0], &def.pos[3], 10.0f, def.area, def.flags, def.bBiDir, 0).
\* The result of fread is not tested; the files of this model are never cut
\* inside the connection, volume or hint records, so def is always read.
ReadCon(r, i, f) ==
    IF ~CanRead(f, r.off) THEN r
    ELSE LET def == RecAt(f, r.off).def
             tcPtr == r.st.arr[i].m_tileCache
         IN  [r EXCEPT !.off = r.off + 1,
                       !.st = SetObj(r.st, tcPtr,
                                tcAddOffMeshConnection(r.st.heap[tcPtr], def.spos, def.epos,
                                    LoadedConRadius, def.area, def.flags, def.bBiDir))]

RECURSIVE ReadCons(_, _, _, _)
ReadCons(r, i, f, left) ==
    IF left = 0 THEN r ELSE ReadCons(ReadCon(r, i, f), i, f, left - 1)

\* One pass of the convex volume loop: fread(&def); m_geom->addConvexVolume(i, ...).
ReadVol(r, i, f) ==
    IF ~CanRead(f, r.off) THEN r
    ELSE [r EXCEPT !.off = r.off + 1,
                   !.st.geom = geomAddConvexVolume(r.st.geom, i, RecAt(f, r.off).def.area)]

RECURSIVE ReadVols(_, _, _, _)
ReadVols(r, i, f, left) ==
    IF left = 0 THEN r ELSE ReadVols(ReadVol(r, i, f), i, f, left - 1)

\* One pass of the nav hint loop: fread(&def); m_geom->addNavHint(i, ...).
ReadHint(r, i, f) ==
    IF ~CanRead(f, r.off) THEN r
    ELSE [r EXCEPT !.off = r.off + 1,
                   !.st.geom = geomAddNavHint(r.st.geom, i, RecAt(f, r.off).def.hintType)]

RECURSIVE ReadHints(_, _, _, _)
ReadHints(r, i, f, left) ==
    IF left = 0 THEN r ELSE ReadHints(ReadHint(r, i, f), i, f, left - 1)

\* The body of loadAll's loop for tile cache i; l = [st, abort, sets], sets
\* the log of what happened to each set.
LoadSet(l, i, f) ==
    LET off == RecAt(f, 0).tileCacheOffsets[i]
        s1 == FreeSetTargets(l.st, i)
    IN  IF ~CanRead(f, off)
        THEN [l EXCEPT !.st = s1, !.sets = Append(l.sets, "shortHeader")]
        ELSE
        LET tcHeader == RecAt(f, off)
            s2 == AllocSetTargets(s1, i, tcHeader)
            r1 == ReadTiles([st |-> s2, off |-> off + 1, stop |-> FALSE, abort |-> FALSE],
                            i, f, tcHeader.numTiles)
        IN  IF r1.abort
            THEN [st |-> r1.st, abort |-> TRUE, sets |-> Append(l.sets, "shortTileData")]
            ELSE
            LET qPtr == r1.st.arr[i].m_navQuery
                s3 == SetObj(r1.st, qPtr,
                             [r1.st.heap[qPtr] EXCEPT !.mesh = r1.st.arr[i].m_navMesh])
                r2 == ReadCons([r1 EXCEPT !.st = s3], i, f, tcHeader.NumOffMeshCons)
                r3 == ReadVols(r2, i, f, tcHeader.NumConvexVols)
                r4 == ReadHints(r3, i, f, tcHeader.NumNavHints)
            IN  [st |-> r4.st, abort |-> FALSE, sets |-> Append(l.sets, "loaded")]

RECURSIVE LoadSets(_, _, _)
LoadSets(l, i, f) ==
    IF i >= RecAt(f, 0).numTileCaches \/ l.abort THEN l
    ELSE LoadSets(LoadSet(l, i, f), i + 1, f)

\* loadAll(path): [st, outcome, sets].
loadAll(st, f) ==
    IF ~ExportHeaderAccepted(f)
    THEN [st |-> st, outcome |-> "rejected", sets |-> <<>>]
    ELSE LET l == LoadSets([st |-> LoadSurfTypes(st, f), abort |-> FALSE, sets |-> <<>>],
                           0, f)
         IN  [st |-> l.st, outcome |-> IF l.abort THEN "aborted" ELSE "done",
              sets |-> l.sets]


(***************************************************************************)
(* Handlers of the sample above loadAll.                                   *)
(***************************************************************************)
\* The "Load" button of handleSettings: m_navMesh and m_tileCache of the
\* sample are freed, then loadAll runs.
handleSettingsLoad(st, f) ==
    loadAll(Free(Free(st, st.sample.m_navMesh), st.sample.m_tileCache), f)

\* handleUpdate(dt): the tile caches are updated in index order; the first
\* entry without a nav mesh or without a tile cache ends the call.  The log
\* lists the indices whose tile cache update was called on.
RECURSIVE handleUpdate(_, _, _)
handleUpdate(st, i, n) ==
    IF i >= n THEN st
    ELSE IF st.arr[i].m_navMesh = NULL THEN st
    ELSE IF st.arr[i].m_tileCache = NULL THEN st
    ELSE LET tcPtr == st.arr[i].m_tileCache
             nmPtr == st.arr[i].m_navMesh
             tc == st.heap[tcPtr]
             st1 == SetObj(SetObj(st, nmPtr, nmUpdate(tc, st.heap[nmPtr])),
                           tcPtr, tcUpdate(tc))
         IN  handleUpdate([st1 EXCEPT !.log = Append(@, i)], i + 1, n)

\* clearAllTempObstacles(): works on the member m_tileCache of the sample, not
\* on the caches of m_NavMeshArray; removeObstacle on each of its obstacles
\* that is not EMPTY.
clearAllTempObstacles(st) ==
    IF st.sample.m_tileCache = NULL THEN st
    ELSE LET tc == st.heap[st.sample.m_tileCache]
         IN  SetObj(st, st.sample.m_tileCache,
                    [tc EXCEPT !.obstacles = [k \in DOMAIN tc.obstacles |->
                        tcRemoveObstacle(tc, k).obstacles[k]]])

\* The body of handleBuild's loop for nav mesh definition mi when
\* dtAllocTileCache() returns null: the query is allocated when there is none,
\* the old cache is freed, m_tileCache is null and handleBuild returns false.
BuildMeshNoTileCache(st, mi) ==
    LET e0 == st.arr[mi]
        st1 == IF e0.m_navQuery = NULL
               THEN SetPtr(New(st, NavQueryAlloc), mi, "m_navQuery", st.nextId)
               ELSE st
    IN  SetPtr(Free(st1, e0.m_tileCache), mi, "m_tileCache", NULL)

\* handleBuild() in which the allocation of the tile cache of definition f
\* fails: the definitions before f are built, the later ones are not reached.
handleBuildNoTileCache(st, f) == BuildMeshNoTileCache(BuildMeshes(st, 0, f), f)

(***************************************************************************)
(* Inputs.                                                                 *)
(***************************************************************************)
\* What the off-mesh connection tool can pass to addOffMeshConnection: two
\* end points, the agent radius, the area and flag of the connection type,
\* and the direction.
ConInputs ==
    { [spos |-> 1, epos |-> 2, rad |-> 10, area |-> 1, flags |-> 1, bBiDir |-> 1],
      [spos |-> 2, epos |-> 1, rad |-> 16, area |-> 2, flags |-> 2, bBiDir |-> 0] }

Points == {1}

Areas == {1}

\* The selected tile cache (getTileCache()) is that of any entry that has one.
Selectable == {i \in DOMAIN m_NavMeshArray :
                 m_NavMeshArray[i].m_tileCache # NULL
                 /\ m_NavMeshArray[i].m_tileCache \in DOMAIN heap}

(***************************************************************************)
(* One tile cache in detail: obstacles, the dirty-tile queue and the       *)
(* rebuild of one tile per update (dtTileCache, Mesh Rebuild Pipeline).    *)
(***************************************************************************)
\* The tile coordinates of the cache: a row of CacheTiles tiles.
Coords == 0 .. (CacheTiles - 1)

\* The positions an obstacle is placed at: position p lies in tile p \div 2,
\* an odd position on the border between two tiles.
Positions == 0 .. (2 * (CacheTiles - 1))

\* The tile coordinates whose footprint the bounds of an obstacle at pos meet.
Touched(pos) == {c \in Coords : 2 * c <= pos + 1 /\ pos <= 2 * c + 1}

\* The stages of the rebuild of one tile that can fail.
Stages == {"decompress", "regions", "contours", "polymesh", "alloc"}

EmptyCacheObstacle == [state |-> "EMPTY", pos |-> 0, touched |-> {}, pending |-> {}]

\* The cache after the initial build: no obstacle, no request, every tile of
\* the nav mesh built with nothing carved out.
CacheBuilt ==
    [obstacles |-> [k \in 1 .. CacheSlots |-> EmptyCacheObstacle],
     reqs |-> <<>>,
     retries |-> [c \in Coords |-> 0],
     nav |-> [c \in Coords |-> [present |-> TRUE, carved |-> {}]]]

\* A seeded fault of the queue: the request is appended without looking for
\* an outstanding one.
Enqueue_NoDedup(reqs, c) == Append(reqs, c)

\* One Dirty-Tile Request: nothing when the coordinate has one outstanding.
Enqueue(reqs, c) == IF c \in Range(reqs) THEN reqs ELSE Append(reqs, c)

\* The requests for a set of coordinates, in coordinate order.
RECURSIVE EnqueueAll(_, _)
EnqueueAll(reqs, cs) ==
    IF cs = {} THEN reqs
    ELSE EnqueueAll(Enqueue(reqs, Min(cs)), cs \ {Min(cs)})

FreeCacheSlots(tc) == {k \in DOMAIN tc.obstacles : tc.obstacles[k].state = "EMPTY"}

\* addObstacle(pos, ...): CapacityError when no slot is free; else the first
\* free slot goes EMPTY -> PROCESSING and every tile it touches is enqueued.
addObstacle(tc, pos) ==
    IF FreeCacheSlots(tc) = {} THEN tc
    ELSE [tc EXCEPT !.obstacles[Min(FreeCacheSlots(tc))] =
                        [state |-> "PROCESSING", pos |-> pos, touched |-> Touched(pos),
                         pending |-> Touched(pos)],
                    !.reqs = EnqueueAll(tc.reqs, Touched(pos))]

\* A seeded fault of removeObstacle: the slot is freed at once.
removeObstacle_FreesAtOnce(tc, k) ==
    IF tc.obstacles[k].state \in {"PROCESSING", "PROCESSED"}
    THEN [tc EXCEPT !.obstacles[k] = EmptyCacheObstacle,
                    !.reqs = EnqueueAll(tc.reqs, tc.obstacles[k].touched)]
    ELSE tc

\* removeObstacle(ref): PROCESSING / PROCESSED -> REMOVING, the tiles it
\* touches enqueued again; NotFoundError, nothing changed, for any other slot.
removeObstacle(tc, k) ==
    IF tc.obstacles[k].state \in {"PROCESSING", "PROCESSED"}
    THEN [tc EXCEPT !.obstacles[k].state = "REMOVING",
                    !.obstacles[k].pending = tc.obstacles[k].touched,
                    !.reqs = EnqueueAll(tc.reqs, tc.obstacles[k].touched)]
    ELSE tc

\* The obstacles the rebuild of tile c carves out: the PROCESSING and
\* PROCESSED ones that touch it.
Carving(tc, c) ==
    {k \in DOMAIN tc.obstacles : /\ tc.obstacles[k].state \in {"PROCESSING", "PROCESSED"}
                                 /\ c \in tc.obstacles[k].touched}

\* The obstacle table after tile c was rebuilt: c leaves every pending set;
\* an obstacle with nothing pending goes PROCESSING -> PROCESSED, or
\* REMOVING -> EMPTY with its slot back on the free list.
Settle(obstacles, c) ==
    [k \in DOMAIN obstacles |->
        LET ob == obstacles[k]
            left == ob.pending \ {c}
        IN  IF ob.state = "PROCESSING"
            THEN [ob EXCEPT !.pending = left,
                            !.state = IF left = {} THEN "PROCESSED" ELSE "PROCESSING"]
            ELSE IF ob.state = "REMOVING"
            THEN (IF left = {} THEN EmptyCacheObstacle ELSE [ob EXCEPT !.pending = left])
            ELSE ob]

\* A seeded fault of update: obstacle states are not settled after a rebuild.
updateOk_NoSettle(tc) ==
    LET c == Head(tc.reqs)
    IN  [tc EXCEPT !.reqs = Tail(tc.reqs),
                   !.retries[c] = 0,
                   !.nav[c] = [present |-> TRUE, carved |-> Carving(tc, c)]]

\* update(dt, navmesh) with the rebuild of the first request succeeding: the
\* nav mesh tile at that coordinate is replaced, the obstacles are settled.
updateOk(tc) ==
    LET c == Head(tc.reqs)
    IN  [tc EXCEPT !.reqs = Tail(tc.reqs),
                   !.retries[c] = 0,
                   !.nav[c] = [present |-> TRUE, carved |-> Carving(tc, c)],
                   !.obstacles = Settle(tc.obstacles, c)]

\* A seeded fault of the failure path: the tile of the nav mesh is removed.
updateFail_DropsNavTile(tc) ==
    LET c == Head(tc.reqs)
    IN  [tc EXCEPT !.reqs = Append(Tail(tc.reqs), c),
                   !.retries[c] = tc.retries[c] + 1,
                   !.nav[c] = [present |-> FALSE, carved |-> {}]]

\* update(dt, navmesh) with the rebuild of the first request failing at some
\* stage, retries left: the nav mesh is untouched, the request is queued again.
updateFail(tc) ==
    LET c == Head(tc.reqs)
    IN  [tc EXCEPT !.reqs = Append(Tail(tc.reqs), c),
                   !.retries[c] = tc.retries[c] + 1]

\* update(dt, navmesh) with the rebuild failing and the retry bound reached:
\* a warning, the request is given up, the tile stays in its last good state.
updateGiveUp(tc) ==
    LET c == Head(tc.reqs)
    IN  [tc EXCEPT !.reqs = Tail(tc.reqs), !.retries[c] = 0]

NoCacheStep == [op |-> "none"]

CacheIdle ==
    /\ tcache = CacheBuilt
    /\ tchist = [edits |-> 0, enq |-> <<>>, proc |-> <<>>, dups |-> 0, last |-> NoCacheStep,
                 removedAt |-> [k \in 1 .. CacheSlots |-> {}],
                 rebuilt |-> [k \in 1 .. CacheSlots |-> {}]]

(***************************************************************************)
(* FastLZCompressor and the fastlz routines it calls.  Buffers are         *)
(* sequences of bytes.                                                     *)
(***************************************************************************)
DT_SUCCESS == "DT_SUCCESS"

DT_FAILURE == "DT_FAILURE"

\* The number of binary digits of n.
RECURSIVE BitLen(_)
BitLen(n) == IF n = 0 THEN 0 ELSE 1 + BitLen(n \div 2)

\* 1.05f, the float nearest to 1.05, is Float105 / 2^23.
Float105 == 8808038

\* n * 1.05f as the float multiplication gives it, in units of 2^-23: the
\* exact product rounded to 24 significant bits, ties to even.
FloatMul105(n) ==
    LET p == n * Float105
        sh == dtMax(BitLen(p) - 24, 0)
        q == p \div Pow2(sh)
        r == p % Pow2(sh)
        up == 2 * r > Pow2(sh) \/ (2 * r = Pow2(sh) /\ q % 2 = 1)
    IN  (IF up THEN q + 1 ELSE q) * Pow2(sh)

\* FastLZCompressor::maxCompressedSize: (int)(bufferSize * 1.05f).
maxCompressedSize(bufferSize) == FloatMul105(bufferSize) \div Pow2(23)

\* A seeded fault of fastlz_compress: the control byte holds the run length,
\* not the run length less one.
fastlz_compress_RunLength(buffer) ==
    IF buffer = <<>> THEN <<>> ELSE <<Len(buffer)>> \o buffer

\* fastlz_compress for an input too short to hold a match (fewer than 16
\* bytes): nothing for an empty input, else one literal run, a control byte
\* of length - 1 followed by the bytes.
fastlz_compress(buffer) ==
    IF buffer = <<>> THEN <<>> ELSE <<Len(buffer) - 1>> \o buffer

\* FastLZCompressor::compress: the maxCompressedSize argument is not used,
\* the status is always DT_SUCCESS.
compress(buffer) ==
    [status |-> DT_SUCCESS,
     compressed |-> fastlz_compress(buffer),
     compressedSize |-> Len(fastlz_compress(buffer))]

\* The byte the decoder reads at index i: past the end of the stream it reads
\* whatever follows the stream in memory.
ByteAt(input, after, i) == IF i \in DOMAIN input THEN input[i] ELSE after

\* Copy n bytes from index from of the output to its end, byte by byte.
RECURSIVE CopyMatch(_, _, _)
CopyMatch(out, from, n) ==
    IF n = 0 THEN out ELSE CopyMatch(Append(out, out[from]), from + 1, n - 1)

\* The loop of fastlz1_decompress: ip is the index of the next byte to read,
\* ctrl the control byte just read, out the bytes written.  An error is 0.
RECURSIVE fastlz1_loop(_, _, _, _, _, _)
fastlz1_loop(input, after, maxout, ip, ctrl, out) ==
    IF ctrl >= 32
    THEN LET len0 == (ctrl \div 32) - 1
             long == len0 = 6
             len  == IF long THEN len0 + ByteAt(input, after, ip) ELSE len0
             ip1  == IF long THEN ip + 1 ELSE ip
             dist == (ctrl % 32) * 256 + ByteAt(input, after, ip1)
             ip2  == ip1 + 1
         IN  IF Len(out) + len + 3 > maxout THEN [size |-> 0, out |-> out]
             ELSE IF Len(out) - dist - 1 < 0 THEN [size |-> 0, out |-> out]
             ELSE LET o == CopyMatch(out, Len(out) - dist, len + 3)
                  IN  IF ip2 <= Len(input)
                      THEN fastlz1_loop(input, after, maxout, ip2 + 1, input[ip2], o)
                      ELSE [size |-> Len(o), out |-> o]
    ELSE LET run == ctrl + 1
         IN  IF Len(out) + run > maxout THEN [size |-> 0, out |-> out]
             ELSE IF (ip - 1) + run > Len(input) THEN [size |-> 0, out |-> out]
             ELSE LET o == out \o SubSeq(input, ip, ip + run - 1)
                      ip1 == ip + run
                  IN  IF ip1 <= Len(input)
                      THEN fastlz1_loop(input, after, maxout, ip1 + 1, input[ip1], o)
                      ELSE [size |-> Len(o), out |-> o]

\* fastlz_decompress for streams of level 1 and of unknown level: the level
\* is in the top three bits of the first byte, which is read even when the
\* stream is empty.
fastlz_decompress(input, after, maxout) ==
    IF ByteAt(input, after, 1) \div 32 = 0
    THEN fastlz1_loop(input, after, maxout, 2, ByteAt(input, after, 1) % 32, <<>>)
    ELSE [size |-> 0, out |-> <<>>]

\* FastLZCompressor::decompress: failure when fastlz_decompress returns a
\* negative size.
decompress(compressed, after, maxBufferSize) ==
    LET r == fastlz_decompress(compressed, after, maxBufferSize)
    IN  [status |-> IF r.size < 0 THEN DT_FAILURE ELSE DT_SUCCESS,
         bufferSize |-> r.size,
         buffer |-> r.out]

CodecIdle == codec = [phase |-> "idle"]

RasterIdle == raster = [phase |-> "idle"]

ToolIdle == tool = [phase |-> "idle"]

DetailIdle == detail = [phase |-> "idle"]

OffsIdle == offs = [phase |-> "idle"]

UiIdle == ToolIdle /\ DetailIdle /\ OffsIdle

(***************************************************************************)
(* Initial states.                                                         *)
(***************************************************************************)
NoCall == [op |-> "none", size |-> 0, pre |-> LinearAllocator(0, FALSE), ok |-> FALSE]

NoLoad == [done |-> FALSE]

NoSnapshot == [done |-> FALSE]

\* The allocator as constructed; in the sample it is LinearAllocator(32000),
\* here any capacity of the model's size_t.
AllocInit ==
    /\ \E cap \in Sizes, allocOk \in BOOLEAN : m_talloc = LinearAllocator(cap, allocOk)
    /\ peak = 0
    /\ lastCall = NoCall

\* The allocator of the sample model: constructed, never used by the handlers
\* modelled here.
AllocIdle ==
    /\ m_talloc = LinearAllocator(SizeMod - 1, TRUE)
    /\ peak = 0
    /\ lastCall = NoCall

\* The sample as constructed, with an input geometry loaded: every pointer
\* null, no file.
SampleInit ==
    /\ NumMeshes \in 1 .. MaxMeshes
    /\ \E tw \in 1 .. MaxTW, th \in 1 .. MaxTH, nl \in 0 .. MaxLayersFound :
          m_geom = [tw |-> tw, th |-> th, nlayers |-> nl, surfTypes |-> <<0>>,
                    volumes |-> <<>>, hints |-> <<>>]
    /\ m_NavMeshArray = [i \in 0 .. (NumMeshes - 1) |->
                            [m_navMesh |-> NULL, m_tileCache |-> NULL, m_navQuery |-> NULL]]
    /\ heap = <<>>
    /\ nextId = 1
    /\ sample = [m_navMesh |-> NULL, m_tileCache |-> NULL, m_cacheLayerCount |-> 0,
                 m_cacheCompressedSize |-> 0, m_cacheRawSize |-> 0,
                 m_cacheBuildMemUsage |-> 0]
    /\ file = <<>>
    /\ ghost = [edits |-> 0, builds |-> 0, saves |-> 0, loads |-> 0,
                buildLog |-> <<>>, saved |-> NoSnapshot, intact |-> FALSE,
                load |-> NoLoad]

\* The sample of the allocator model: one fixed, untouched sample.
SampleIdle ==
    /\ NumMeshes = 1
    /\ m_geom = [tw |-> 1, th |-> 1, nlayers |-> 0, surfTypes |-> <<0>>,
                 volumes |-> <<>>, hints |-> <<>>]
    /\ m_NavMeshArray = [i \in 0 .. 0 |->
                            [m_navMesh |-> NULL, m_tileCache |-> NULL, m_navQuery |-> NULL]]
    /\ heap = <<>>
    /\ nextId = 1
    /\ sample = [m_navMesh |-> NULL, m_tileCache |-> NULL, m_cacheLayerCount |-> 0,
                 m_cacheCompressedSize |-> 0, m_cacheRawSize |-> 0,
                 m_cacheBuildMemUsage |-> 0]
    /\ file = <<>>
    /\ ghost = [edits |-> 0, builds |-> 0, saves |-> 0, loads |-> 0,
                buildLog |-> <<>>, saved |-> NoSnapshot, intact |-> FALSE,
                load |-> NoLoad]

InitAlloc == AllocInit /\ SampleIdle /\ CacheIdle /\ CodecIdle /\ RasterIdle /\ UiIdle

Init == AllocIdle /\ SampleInit /\ CacheIdle /\ CodecIdle /\ RasterIdle /\ UiIdle

(***************************************************************************)
(* Actions of the allocator model.                                         *)
(***************************************************************************)
AllocCall ==
    /\ \E size \in Sizes :
        LET r == alloc(m_talloc, size) IN
        /\ m_talloc' = r.a
        /\ peak' = dtMax(peak, r.a.top)
        /\ lastCall' = [op |-> "alloc", size |-> size, pre |-> m_talloc, ok |-> r.ok]
    /\ UNCHANGED <<sampleVars, auxVars>>

ResetCall ==
    /\ m_talloc' = reset(m_talloc)
    /\ peak' = peak
    /\ lastCall' = [op |-> "reset", size |-> 0, pre |-> m_talloc, ok |-> FALSE]
    /\ UNCHANGED <<sampleVars, auxVars>>

FreeCall ==
    /\ m_talloc' = free(m_talloc)
    /\ peak' = peak
    /\ lastCall' = [op |-> "free", size |-> 0, pre |-> m_talloc, ok |-> FALSE]
    /\ UNCHANGED <<sampleVars, auxVars>>

NextAlloc == AllocCall \/ ResetCall \/ FreeCall

SpecAlloc == InitAlloc /\ [][NextAlloc]_vars

(***************************************************************************)
(* Actions of the sample model.                                            *)
(***************************************************************************)
\* Assign the variables a handler's result st holds.
Commit(st) ==
    /\ m_NavMeshArray' = st.arr
    /\ heap' = st.heap
    /\ nextId' = st.nextId
    /\ m_geom' = st.geom
    /\ sample' = st.sample

\* Replace the tile cache object of entry sel.
SetCache(sel, tc) ==
    /\ heap' = [heap EXCEPT ![m_NavMeshArray[sel].m_tileCache] = tc]
    /\ UNCHANGED <<m_NavMeshArray, nextId, m_geom, sample>>

SelCache(sel) == heap[m_NavMeshArray[sel].m_tileCache]

\* handleBuild().  With a dangling pointer in the array the handler reads and
\* frees a freed object: the program has no defined next state.
HandleBuild ==
    /\ ghost.builds < MaxBuilds
    /\ NoDangling(Now)
    /\ LET st == handleBuild(Now, NumMeshes, m_talloc) IN
        /\ Commit(st)
        /\ ghost' = [ghost EXCEPT !.builds = @ + 1,
                                  !.buildLog = st.log]
    /\ UNCHANGED <<allocVars, auxVars, NumMeshes, file>>

\* Sample_TempObstacles::addOffMeshConnection, as the connection tool calls it.
AddOffMeshConnection ==
    /\ \E sel \in Selectable, c \in ConInputs :
        /\ FreeConSlots(SelCache(sel)) # {}
        /\ SetCache(sel, tcAddOffMeshConnection(SelCache(sel), c.spos, c.epos, c.rad,
                                                c.area, c.flags, c.bBiDir))
    /\ ghost.edits < MaxEdits
    /\ ghost' = [ghost EXCEPT !.edits = @ + 1]
    /\ UNCHANGED <<allocVars, auxVars, NumMeshes, file>>

\* Sample_TempObstacles::removeOffMeshConnection: the hit test passes over
\* EMPTY connections only.
RemoveOffMeshConnection ==
    /\ \E sel \in Selectable :
        \E k \in DOMAIN SelCache(sel).offMesh :
            /\ SelCache(sel).offMesh[k].state # "EMPTY"
            /\ SetCache(sel, tcRemoveOffMeshConnection(SelCache(sel), k))
    /\ ghost.edits < MaxEdits
    /\ ghost' = [ghost EXCEPT !.edits = @ + 1]
    /\ UNCHANGED <<allocVars, auxVars, NumMeshes, file>>

\* addTempObstacle(pos, Area)
AddTempObstacle ==
    /\ \E sel \in Selectable, pos \in Points :
        /\ FreeObstacleSlots(SelCache(sel)) # {}
        /\ SetCache(sel, tcAddObstacle(SelCache(sel), pos))
    /\ ghost.edits < MaxEdits
    /\ ghost' = [ghost EXCEPT !.edits = @ + 1]
    /\ UNCHANGED <<allocVars, auxVars, NumMeshes, file>>

\* removeTempObstacle(sp, sq), the ray hitting obstacle k.
RemoveTempObstacle ==
    /\ \E sel \in Selectable :
        \E k \in DOMAIN SelCache(sel).obstacles :
            /\ SelCache(sel).obstacles[k].state \in {"PROCESSING", "PROCESSED"}
            /\ SetCache(sel, tcRemoveObstacle(SelCache(sel), k))
    /\ ghost.edits < MaxEdits
    /\ ghost' = [ghost EXCEPT !.edits = @ + 1]
    /\ UNCHANGED <<allocVars, auxVars, NumMeshes, file>>

\* handleUpdate(dt); a tick that changes nothing is a stuttering step.
HandleUpdate ==
    /\ NoDangling(Now)
    /\ LET st == handleUpdate(Now, 0, NumMeshes) IN
        /\ st.heap # heap
        /\ Commit(st)
    /\ ghost.edits < MaxEdits
    /\ ghost' = [ghost EXCEPT !.edits = @ + 1]
    /\ UNCHANGED <<allocVars, auxVars, NumMeshes, file>>

\* The mesh editor changes the surface type of a triangle.
SetTriangleArea ==
    /\ m_geom' = [m_geom EXCEPT !.surfTypes[1] = 1 - @]
    /\ ghost.edits < MaxEdits
    /\ ghost' = [ghost EXCEPT !.edits = @ + 1]
    /\ UNCHANGED <<allocVars, auxVars, NumMeshes, m_NavMeshArray, heap, nextId, sample, file>>

\* The convex volume tool adds a volume for a nav mesh.
AddConvexVolume ==
    /\ Len(m_geom.volumes) < MaxVolumes
    /\ \E i \in DOMAIN m_NavMeshArray, area \in Areas :
        m_geom' = geomAddConvexVolume(m_geom, i, area)
    /\ ghost.edits < MaxEdits
    /\ ghost' = [ghost EXCEPT !.edits = @ + 1]
    /\ UNCHANGED <<allocVars, auxVars, NumMeshes, m_NavMeshArray, heap, nextId, sample, file>>

\* The nav hint tool adds a hint for a nav mesh.
AddNavHint ==
    /\ Len(m_geom.hints) < MaxHints
    /\ \E i \in DOMAIN m_NavMeshArray, t \in Areas :
        m_geom' = geomAddNavHint(m_geom, i, t)
    /\ ghost.edits < MaxEdits
    /\ ghost' = [ghost EXCEPT !.edits = @ + 1]
    /\ UNCHANGED <<allocVars, auxVars, NumMeshes, m_NavMeshArray, heap, nextId, sample, file>>

\* Every entry SaveData dereferences holds a live tile cache and nav mesh.
Saveable ==
    \A i \in DOMAIN m_NavMeshArray :
        /\ m_NavMeshArray[i].m_tileCache \in DOMAIN heap
        /\ m_NavMeshArray[i].m_navMesh \in DOMAIN heap

\* The "Save" button: saveAll(path), which calls SaveData(path) when entry 0
\* has a tile cache.  The snapshot is the ghost copy of what was in memory.
SaveAll ==
    /\ ghost.saves < MaxSaves
    /\ m_NavMeshArray[0].m_tileCache # NULL
    /\ Saveable
    /\ LET r == SaveData(Now, NumMeshes) IN
        /\ Commit(r.st)
        /\ file' = r.file
        /\ ghost' = [ghost EXCEPT !.saves = @ + 1, !.intact = TRUE,
                        !.saved = [done |-> TRUE,
                                   caches |-> [i \in DOMAIN m_NavMeshArray |-> SelCache(i)],
                                   geom |-> m_geom]]
    /\ UNCHANGED <<allocVars, auxVars, NumMeshes>>

\* The offsets at which a file written by SaveData can be cut so that a
\* loader meets a short read of a set header or of a tile's data.
CutPoints(f) ==
    {0} \cup {k \in 1 .. (Len(f) - 1) : f[k + 1].kind \in {"set", "data"}}

\* The file on disk is replaced by a damaged or foreign one: its export
\* header or one set header has another magic or version, or the file is cut.
DamageFile ==
    /\ ghost.intact
    /\ \/ \E k \in {j \in DOMAIN file : file[j].kind \in {"export", "set"}} :
            \/ file' = [file EXCEPT ![k].magic = TILECACHESET_MAGIC + 1]
            \/ file' = [file EXCEPT ![k].version = TILECACHESET_VERSION + 1]
       \/ \E cut \in CutPoints(file) : file' = SubSeq(file, 1, cut)
    /\ ghost' = [ghost EXCEPT !.intact = FALSE]
    /\ UNCHANGED <<allocVars, auxVars, NumMeshes, m_geom, m_NavMeshArray, heap, nextId, sample>>

\* The "Load" button.  With a dangling pointer in the array loadAll frees a
\* freed object: the program has no defined next state.
HandleLoad ==
    /\ ghost.loads < MaxLoads
    /\ NoDangling(Now)
    /\ LET r == handleSettingsLoad(Now, file) IN
        /\ Commit(r.st)
        /\ ghost' = [ghost EXCEPT !.loads = @ + 1,
                        !.load = [done |-> TRUE, outcome |-> r.outcome, sets |-> r.sets,
                                  file |-> file, intact |-> ghost.intact,
                                  pre |-> [arr |-> m_NavMeshArray, heap |-> heap,
                                           nextId |-> nextId, geom |-> m_geom],
                                  post |-> [arr |-> r.st.arr, heap |-> r.st.heap,
                                            nextId |-> r.st.nextId, geom |-> r.st.geom]]]
    /\ UNCHANGED <<allocVars, auxVars, NumMeshes, file>>

Next ==
    \/ HandleBuild
    \/ AddOffMeshConnection
    \/ RemoveOffMeshConnection
    \/ AddTempObstacle
    \/ RemoveTempObstacle
    \/ HandleUpdate
    \/ SetTriangleArea
    \/ AddConvexVolume
    \/ AddNavHint
    \/ SaveAll
    \/ DamageFile
    \/ HandleLoad

Spec == Init /\ [][Next]_vars

(***************************************************************************)
(* Claims about the LinearAllocator (checked under SpecAlloc).             *)
(***************************************************************************)
\* C1: an alloc(size) called when size exceeds the remaining capacity
\* (capacity - top) returns null and leaves buffer, capacity, top and high
\* exactly as they were before the call.
C1_AllocOverCapacityFails ==
    (lastCall.op = "alloc" /\ lastCall.size > lastCall.pre.capacity - lastCall.pre.top)
        => (~lastCall.ok /\ m_talloc = lastCall.pre)

\* C2: after any sequence of alloc, free and reset calls on an allocator built
\* with capacity C, both top and high are at most C.
C2_UsageWithinCapacity ==
    /\ m_talloc.top <= m_talloc.capacity
    /\ m_talloc.high <= m_talloc.capacity

\* C2 witness: after an alloc/reset cycle that filled the whole buffer, a further
\* alloc has succeeded: the recorded peak is the capacity and top is positive.
C2_Witness ==
    /\ lastCall.op = "alloc" /\ lastCall.ok
    /\ m_talloc.capacity > 0
    /\ m_talloc.high = m_talloc.capacity
    /\ m_talloc.top > 0

\* C3: whenever high is read after any sequence of alloc and reset calls it
\* equals the largest value top has reached since construction.
C3_HighIsPeak == m_talloc.high = peak

(***************************************************************************)
(* Claims about handleBuild, SaveData and loadAll (specification Spec).    *)
(***************************************************************************)
RECURSIVE SumSizes(_, _)
SumSizes(log, k) ==
    IF k > Len(log) THEN 0
    ELSE (IF log[k].ok THEN log[k].dataSize ELSE 0) + SumSizes(log, k + 1)

\* The passes of the last build's ingest loop that stored their layer.
Stored(log) == {k \in DOMAIN log : log[k].ok}

\* maxTiles of the tile cache handleBuild creates for the geometry.
BuildMaxTiles == m_geom.tw * m_geom.th * EXPECTED_LAYERS_PER_TILE

\* C4: once the tile cache holds maxTiles tiles every further addTile of the
\* build fails and leaves the store as it was; handleBuild frees the rejected
\* layer's buffer, leaves it out of m_cacheLayerCount, m_cacheCompressedSize
\* and m_cacheRawSize, and goes on: every layer of every tile is attempted.
C4_FullStoreRejectsTile ==
    ghost.builds > 0 =>
        LET log == ghost.buildLog IN
        /\ \A k \in DOMAIN log :
              IF log[k].before >= BuildMaxTiles
              THEN ~log[k].ok /\ log[k].storeSame /\ log[k].freed
              ELSE log[k].ok /\ ~log[k].freed
        /\ Len(log) = m_geom.tw * m_geom.th * rcMin(m_geom.nlayers, MAX_LAYERS)
        /\ sample.m_cacheLayerCount = Cardinality(Stored(log))
        /\ sample.m_cacheCompressedSize = SumSizes(log, 1)
        /\ sample.m_cacheRawSize
              = Cardinality(Stored(log)) * calcLayerBufferSize(TileSize, TileSize)

\* A build in which a layer was rejected by the full store and a further
\* layer was attempted after it.
C4_Witness ==
    /\ ghost.builds > 0
    /\ \E k \in DOMAIN ghost.buildLog :
          /\ ~ghost.buildLog[k].ok
          /\ ghost.buildLog[k].before = BuildMaxTiles
          /\ k + 1 \in DOMAIN ghost.buildLog
    /\ sample.m_cacheLayerCount = BuildMaxTiles

\* A load of the file the last SaveData wrote, unchanged since.
RoundTrip == ghost.load.done /\ ghost.load.intact

Meshes == 0 .. (NumMeshes - 1)

\* The tile cache of entry i when SaveData was called / after the load.
SavedCache(i) == ghost.saved.caches[i]

LoadedCache(i) == ghost.load.post.heap[ghost.load.post.arr[i].m_tileCache]

LoadedLive(i) == ghost.load.post.arr[i].m_tileCache \in DOMAIN ghost.load.post.heap

\* The tile headers that follow the set header at index j of file f, up to
\* the next set header.
TileHeadersOfSet(f, j) ==
    {k \in DOMAIN f : /\ k > j
                      /\ f[k].kind = "tilehdr"
                      /\ \A m \in (j + 1) .. k : f[m].kind # "set"}

\* C5: SaveData then loadAll gives every tile cache the tiles it had when it
\* was saved, the same coordinates with the same compressed bytes, and in the
\* file every set header's numTiles is the number of tile records of the set.
C5_TilesRoundTrip ==
    RoundTrip =>
        /\ ghost.load.outcome = "done"
        /\ \A i \in Meshes :
              /\ LoadedLive(i)
              /\ Range(LoadedCache(i).tiles) = Range(SavedCache(i).tiles)
              /\ {TileCoord(d) : d \in Range(LoadedCache(i).tiles)}
                    = {TileCoord(d) : d \in Range(SavedCache(i).tiles)}
              /\ Len(LoadedCache(i).tiles) = Len(SavedCache(i).tiles)
        /\ \A j \in DOMAIN ghost.load.file :
              ghost.load.file[j].kind = "set" =>
                  ghost.load.file[j].numTiles
                      = Cardinality(TileHeadersOfSet(ghost.load.file, j))

\* A round trip of a tile cache with tiles at two grid cells and several
\* layers.
C5_Witness ==
    /\ RoundTrip
    /\ \E i \in Meshes :
          /\ Len(SavedCache(i).tiles) >= 4
          /\ \E d, e \in Range(SavedCache(i).tiles) : d[1] # e[1]

\* What a connection is, its state apart.
ConDef(con) == [spos |-> con.spos, epos |-> con.epos, rad |-> con.rad, area |-> con.area,
                flags |-> con.flags, bBiDir |-> con.bBiDir]

ConDefs(tc) == [k \in DOMAIN ActiveCons(tc) |-> ConDef(ActiveCons(tc)[k])]

\* The connections of a cache in any state but EMPTY.
PresentCons(tc) == {k \in DOMAIN tc.offMesh : tc.offMesh[k].state # "EMPTY"}

\* C6: SaveData then loadAll reproduces the connection table: the connections
\* neither EMPTY nor REMOVING at save time are present with the same end
\* points, radius, area, flags and direction, and no other connection is.
C6_ConnectionsRoundTrip ==
    RoundTrip =>
        \A i \in Meshes :
            /\ LoadedLive(i)
            /\ ConDefs(LoadedCache(i)) = ConDefs(SavedCache(i))
            /\ Cardinality(PresentCons(LoadedCache(i))) = Len(ConDefs(SavedCache(i)))

ObstacleStates(tc) == {tc.obstacles[k].state : k \in DOMAIN tc.obstacles}

\* The obstacles of a cache that are PROCESSING or PROCESSED.
LiveObstacles(tc) ==
    {tc.obstacles[k].pos : k \in {j \in DOMAIN tc.obstacles :
                                    tc.obstacles[j].state \in {"PROCESSING", "PROCESSED"}}}

\* C7 (as stated): SaveData then loadAll reproduces the obstacle table: the
\* obstacles PROCESSING or PROCESSED at save time are present in the loaded
\* store, those REMOVING or EMPTY are absent.
C7_ObstaclesRoundTrip ==
    RoundTrip =>
        \A i \in Meshes :
            /\ LoadedLive(i)
            /\ LiveObstacles(LoadedCache(i)) = LiveObstacles(SavedCache(i))

\* C7 (amended): SaveData writes no obstacle and loadAll fills a new tile
\* cache from the file, so after SaveData then loadAll every obstacle slot of
\* the loaded store is EMPTY, whatever the obstacles were at save time.
C7_NoObstacleAfterLoad ==
    RoundTrip =>
        /\ ghost.load.outcome = "done"
        /\ \A i \in Meshes : LoadedLive(i) /\ ObstacleStates(LoadedCache(i)) = {"EMPTY"}

\* A round trip of a tile cache that held a PROCESSED obstacle when it was
\* saved and still held it when Load was pressed.
C7_Witness ==
    /\ RoundTrip
    /\ \E i \in Meshes :
          /\ "PROCESSED" \in ObstacleStates(SavedCache(i))
          /\ "PROCESSED" \in ObstacleStates(
                ghost.load.pre.heap[ghost.load.pre.arr[i].m_tileCache])

\* The export header of file f cannot be read in full or has another magic
\* or version.
BadExportHeader(f) ==
    \/ f = <<>>
    \/ f[1].magic # TILECACHESET_MAGIC
    \/ f[1].version # TILECACHESET_VERSION

\* C8: loadAll of a file whose export header is short or has another magic or
\* version frees and allocates nothing in m_NavMeshArray and leaves the input
\* geometry as it was.
C8_BadExportHeaderRejected ==
    (ghost.load.done /\ BadExportHeader(ghost.load.file)) =>
        /\ ghost.load.outcome = "rejected"
        /\ ghost.load.post = ghost.load.pre

\* Load pressed, with built nav meshes in memory and surface types edited
\* since the save, on a file whose export header has another version.
C8_Witness ==
    /\ ghost.load.done
    /\ ghost.load.file # <<>>
    /\ ghost.load.file[1].magic = TILECACHESET_MAGIC
    /\ ghost.load.file[1].version # TILECACHESET_VERSION
    /\ ghost.load.pre.arr[0].m_tileCache # NULL
    /\ ghost.load.pre.geom.surfTypes # ghost.saved.geom.surfTypes

\* The sets of file f whose header is read in full with another magic or
\* version.
BadSets(f) ==
    {i \in 0 .. (f[1].numTileCaches - 1) :
        /\ f[1].tileCacheOffsets[i] + 1 \in DOMAIN f
        /\ \/ f[f[1].tileCacheOffsets[i] + 1].magic # TILECACHESET_MAGIC
           \/ f[f[1].tileCacheOffsets[i] + 1].version # TILECACHESET_VERSION}

\* C9: a set header with another magic or version aborts the load: loadAll
\* allocates no tile cache for that set and adds no tile, connection, convex
\* volume or nav hint from it.
C9_BadSetHeaderAborts ==
    (ghost.load.done /\ ~BadExportHeader(ghost.load.file)) =>
        \A i \in BadSets(ghost.load.file) :
            /\ ghost.load.outcome # "done"
            /\ ghost.load.post.arr[i].m_tileCache < ghost.load.pre.nextId
            /\ ghost.load.post.geom.volumes = ghost.load.pre.geom.volumes
            /\ ghost.load.post.geom.hints = ghost.load.pre.geom.hints

\* A load that was rejected, or met a short read of a set header or of a
\* tile's data.
LoadFailed ==
    /\ ghost.load.done
    /\ \/ ghost.load.outcome \in {"rejected", "aborted"}
       \/ "shortHeader" \in Range(ghost.load.sets)

\* Object p of the state before the load is live and the same after it.
Intact(p) ==
    p # NULL => /\ p \in DOMAIN ghost.load.post.heap
                /\ ghost.load.post.heap[p] = ghost.load.pre.heap[p]

\* C10: after a load that was rejected or failed part-way every nav mesh and
\* tile cache that was in memory before the load is intact and still the one
\* its entry refers to.
C10_FailedLoadKeepsState ==
    LoadFailed =>
        \A i \in Meshes :
            /\ Intact(ghost.load.pre.arr[i].m_navMesh)
            /\ Intact(ghost.load.pre.arr[i].m_tileCache)
            /\ ghost.load.post.arr[i].m_navMesh = ghost.load.pre.arr[i].m_navMesh
            /\ ghost.load.post.arr[i].m_tileCache = ghost.load.pre.arr[i].m_tileCache

(***************************************************************************)
(* Claims about what SaveData writes for each tile cache.                  *)
(***************************************************************************)
\* The records of kind kind among f[lo .. hi], in file order.
RECURSIVE Pick(_, _, _, _)
Pick(f, lo, hi, kind) ==
    IF lo > hi THEN <<>>
    ELSE (IF f[lo].kind = kind THEN <<f[lo]>> ELSE <<>>) \o Pick(f, lo + 1, hi, kind)

\* The index in f of the set header of tile cache i.
SetIndex(f, i) == f[1].tileCacheOffsets[i] + 1

\* The last index of the set that starts at index j: the record before the
\* next set header, or the last record of the file.
SetEnd(f, j) ==
    LET later == {k \in DOMAIN f : k > j /\ f[k].kind = "set"}
    IN  IF later = {} THEN Len(f) ELSE Min(later) - 1

\* The records of one kind that SaveData wrote for tile cache i.
SetRecords(f, i, kind) == Pick(f, SetIndex(f, i) + 1, SetEnd(f, SetIndex(f, i)), kind)

\* C11: for every tile cache SaveData writes, the connection records are the
\* connections that were neither EMPTY nor REMOVING when SaveData was called,
\* in slot order, and NumOffMeshCons of the set header is their number.
C11_SavedConnectionsAreActive ==
    ghost.intact =>
        \A i \in Meshes :
            LET cons == SetRecords(file, i, "con") IN
            /\ [k \in DOMAIN cons |-> ConDef(cons[k].def)] = ConDefs(SavedCache(i))
            /\ file[SetIndex(file, i)].NumOffMeshCons = Len(cons)

\* A file just saved from a tile cache that held a REMOVING connection.
C11_Witness ==
    /\ ghost.intact
    /\ \E i \in Meshes :
          \E k \in DOMAIN SavedCache(i).offMesh : SavedCache(i).offMesh[k].state = "REMOVING"

\* The entries of a volume or hint table that belong to nav mesh i, in order.
OfMesh(table, i) == SelectSeq(table, LAMBDA e : e.NavMeshIndex = i)

Defs(recs) == [k \in DOMAIN recs |-> recs[k].def]

\* What a load appended to a table of the input geometry.
Added(before, after) == SubSeq(after, Len(before) + 1, Len(after))

\* C12: for tile cache i SaveData writes the convex volumes and the nav hints
\* whose NavMeshIndex is i, each once, the two counts of the set header are
\* the numbers of those records, and loadAll adds those volumes and hints to
\* mesh i.
C12_VolumesAndHintsPerMesh ==
    /\ ghost.intact =>
          \A i \in Meshes :
              /\ Defs(SetRecords(file, i, "vol")) = OfMesh(ghost.saved.geom.volumes, i)
              /\ Defs(SetRecords(file, i, "hint")) = OfMesh(ghost.saved.geom.hints, i)
              /\ file[SetIndex(file, i)].NumConvexVols
                    = Len(OfMesh(ghost.saved.geom.volumes, i))
              /\ file[SetIndex(file, i)].NumNavHints
                    = Len(OfMesh(ghost.saved.geom.hints, i))
    /\ RoundTrip =>
          \A i \in Meshes :
              /\ OfMesh(Added(ghost.load.pre.geom.volumes, ghost.load.post.geom.volumes), i)
                    = OfMesh(ghost.saved.geom.volumes, i)
              /\ OfMesh(Added(ghost.load.pre.geom.hints, ghost.load.post.geom.hints), i)
                    = OfMesh(ghost.saved.geom.hints, i)

(***************************************************************************)
(* The detailed tile cache as a state machine: obstacle calls and updates. *)
(***************************************************************************)
InitCache == AllocIdle /\ SampleIdle /\ CacheIdle /\ CodecIdle /\ RasterIdle /\ UiIdle

\* The requests a call appended to the queue.
Appended(before, after) == SubSeq(after.reqs, Len(before.reqs) + 1, Len(after.reqs))

\* addTempObstacle(pos): addObstacle on the tile cache.
CacheAddObstacle ==
    /\ tchist.edits < MaxCacheOps
    /\ \E pos \in Positions :
        LET tc == addObstacle(tcache, pos)
            k  == Min(FreeCacheSlots(tcache))
            accepted == FreeCacheSlots(tcache) # {}
        IN  /\ tcache' = tc
            /\ tchist' = [tchist EXCEPT
                  !.edits = @ + 1,
                  !.enq = @ \o Appended(tcache, tc),
                  !.dups = IF accepted
                           THEN @ + Cardinality(Touched(pos)) - Len(Appended(tcache, tc))
                           ELSE @,
                  !.removedAt = IF accepted THEN [@ EXCEPT ![k] = {}] ELSE @,
                  !.rebuilt = IF accepted THEN [@ EXCEPT ![k] = {}] ELSE @,
                  !.last = [op |-> "add", slot |-> IF accepted THEN k ELSE 0]]
    /\ UNCHANGED <<allocVars, sampleVars, codec, raster, uiVars>>

\* removeTempObstacle: removeObstacle on the obstacle the hit test found.
CacheRemoveObstacle ==
    /\ tchist.edits < MaxCacheOps
    /\ \E k \in DOMAIN tcache.obstacles :
        LET tc == removeObstacle(tcache, k)
            accepted == tcache.obstacles[k].state \in {"PROCESSING", "PROCESSED"}
        IN  /\ tcache.obstacles[k].state # "EMPTY"
            /\ tcache' = tc
            /\ tchist' = [tchist EXCEPT
                  !.edits = @ + 1,
                  !.enq = @ \o Appended(tcache, tc),
                  !.dups = IF accepted
                           THEN @ + Cardinality(tcache.obstacles[k].touched)
                                  - Len(Appended(tcache, tc))
                           ELSE @,
                  !.removedAt = IF accepted THEN [@ EXCEPT ![k] = tcache.obstacles[k].touched]
                                ELSE @,
                  !.rebuilt = IF accepted THEN [@ EXCEPT ![k] = {}] ELSE @,
                  !.last = [op |-> "remove", slot |-> k]]
    /\ UNCHANGED <<allocVars, sampleVars, codec, raster, uiVars>>

\* handleUpdate -> update, the rebuild of the first request succeeding.
CacheUpdateOk ==
    /\ tcache.reqs # <<>>
    /\ LET c == Head(tcache.reqs)
           tc == updateOk(tcache)
       IN  /\ tcache' = tc
           /\ tchist' = [tchist EXCEPT
                 !.proc = Append(@, c),
                 !.rebuilt = [k \in DOMAIN @ |->
                                 IF tcache.obstacles[k].state = "REMOVING"
                                 THEN @[k] \cup {c} ELSE @[k]],
                 !.last = [op |-> "update", ok |-> TRUE, coord |-> c, stage |-> "none",
                           navBefore |-> tcache.nav, navAfter |-> tc.nav]]
    /\ UNCHANGED <<allocVars, sampleVars, codec, raster, uiVars>>

\* handleUpdate -> update, the rebuild failing at some stage with retries left.
CacheUpdateFail ==
    /\ tcache.reqs # <<>>
    /\ tcache.retries[Head(tcache.reqs)] < RetryBound
    /\ \E stage \in Stages :
        LET c == Head(tcache.reqs)
            tc == updateFail(tcache)
        IN  /\ tcache' = tc
            /\ tchist' = [tchist EXCEPT
                  !.proc = Append(@, c),
                  !.enq = Append(@, c),
                  !.last = [op |-> "update", ok |-> FALSE, coord |-> c, stage |-> stage,
                            navBefore |-> tcache.nav, navAfter |-> tc.nav]]
    /\ UNCHANGED <<allocVars, sampleVars, codec, raster, uiVars>>

\* handleUpdate -> update, the rebuild failing with the retry bound reached.
CacheUpdateGiveUp ==
    /\ tcache.reqs # <<>>
    /\ tcache.retries[Head(tcache.reqs)] >= RetryBound
    /\ \E stage \in Stages :
        LET c == Head(tcache.reqs)
            tc == updateGiveUp(tcache)
        IN  /\ tcache' = tc
            /\ tchist' = [tchist EXCEPT
                  !.proc = Append(@, c),
                  !.last = [op |-> "update", ok |-> FALSE, coord |-> c, stage |-> stage,
                            navBefore |-> tcache.nav, navAfter |-> tc.nav]]
    /\ UNCHANGED <<allocVars, sampleVars, codec, raster, uiVars>>

NextCache ==
    \/ CacheAddObstacle
    \/ CacheRemoveObstacle
    \/ CacheUpdateOk
    \/ CacheUpdateFail
    \/ CacheUpdateGiveUp

SpecCache == InitCache /\ [][NextCache]_vars

\* The tile cache while no rebuild fails more than RetryBound times in a row:
\* the frame loop calls handleUpdate again and again.
CacheUpdate == CacheUpdateOk \/ CacheUpdateFail

NextCacheLive ==
    \/ CacheAddObstacle
    \/ CacheRemoveObstacle
    \/ CacheUpdateOk
    \/ CacheUpdateFail

SpecCacheLive == InitCache /\ [][NextCacheLive]_vars /\ WF_vars(CacheUpdate)

(***************************************************************************)
(* Claims about the obstacle lifecycle and the dirty-tile queue.           *)
(***************************************************************************)
CacheSlotIds == 1 .. CacheSlots

ObState(k) == tcache.obstacles[k].state

AwaitingRebuild(k) == tchist.removedAt[k] \ tchist.rebuilt[k]

\* C14: a removed obstacle stays REMOVING, its slot not reused, until every
\* tile it touched has been rebuilt successfully without it; only then is it
\* EMPTY, and no tile of the nav mesh carves it out any more.
C14_RemovingUntilRebuilt ==
    \A k \in CacheSlotIds :
        /\ AwaitingRebuild(k) # {} =>
               /\ ObState(k) = "REMOVING"
               /\ tcache.obstacles[k].touched = tchist.removedAt[k]
        /\ (ObState(k) = "EMPTY" /\ tchist.removedAt[k] # {}) =>
               \A c \in tchist.removedAt[k] :
                   c \in tchist.rebuilt[k] /\ k \notin tcache.nav[c].carved
        /\ ObState(k) = "REMOVING" => tchist.removedAt[k] # {}

\* A removed obstacle on the border of two tiles, one of them rebuilt and the
\* other not yet: still REMOVING.
C14_Witness ==
    \E k \in CacheSlotIds :
        /\ ObState(k) = "REMOVING"
        /\ tchist.rebuilt[k] # {}
        /\ AwaitingRebuild(k) # {}

\* How many requests of the queue name coordinate c.
Outstanding(c) == Cardinality({j \in DOMAIN tcache.reqs : tcache.reqs[j] = c})

\* C15: however often a tile coordinate is enqueued before it is processed,
\* the queue holds exactly one request for it, and requests are processed in
\* the order in which they were first enqueued.
C15_OneRequestPerTile ==
    /\ \A c \in Coords : Outstanding(c) <= 1
    /\ \A c \in Coords :
           Cardinality({j \in DOMAIN tchist.enq : tchist.enq[j] = c})
             = Cardinality({j \in DOMAIN tchist.proc : tchist.proc[j] = c}) + Outstanding(c)
    /\ tchist.proc \o tcache.reqs = tchist.enq

\* Two tiles queued, one of them enqueued again while it was waiting.
C15_Witness ==
    /\ Len(tcache.reqs) >= 2
    /\ tchist.dups >= 2
    /\ tchist.proc # <<>>

\* C16: when a stage of the rebuild of a tile fails (decompression, regions,
\* contours, polygon mesh, scratch allocation) the nav mesh keeps the content
\* it had at that coordinate, and every other coordinate is unchanged.
C16_FailedRebuildKeepsTile ==
    (tchist.last.op = "update" /\ ~tchist.last.ok) =>
        /\ tchist.last.stage \in Stages
        /\ \A c \in Coords : tchist.last.navAfter[c] = tchist.last.navBefore[c]
        /\ tcache.nav = tchist.last.navBefore

\* A rebuild has just failed for a tile whose content in the nav mesh is out
\* of date: an obstacle that touches it is not carved out yet.
C16_Witness ==
    /\ tchist.last.op = "update"
    /\ ~tchist.last.ok
    /\ tchist.last.stage = "contours"
    /\ Carving(tcache, tchist.last.coord) # tcache.nav[tchist.last.coord].carved

(***************************************************************************)
(* The FastLZCompressor as a state machine: a raw buffer is compressed and *)
(* decompressed again, or a stream that came from elsewhere is             *)
(* decompressed.                                                           *)
(***************************************************************************)
SeqsUpTo(S, n) == UNION {[1 .. k -> S] : k \in 0 .. n}

\* The bytes of raw buffers.
RawBytes == {0, 7}

\* The bytes of compressed streams: literal runs of 1, 2 and 8 bytes, a match
\* of three bytes (32), and 64, a match of four bytes or, as the first byte,
\* a level the decoder does not know.
StreamBytes == {0, 1, 7, 32, 64}

\* The streams given to decompress: any bytes, the first one not naming
\* level 2 (32 .. 63).
Streams == {st \in SeqsUpTo(StreamBytes, MaxStream) : st = <<>> \/ st[1] \div 32 # 1}

CodecTask(phase, raw, compressed, after, maxBufferSize) ==
    [phase |-> phase, raw |-> raw, compressed |-> compressed,
     compressedSize |-> Len(compressed), after |-> after,
     maxBufferSize |-> maxBufferSize, status |-> "none", buffer |-> <<>>, bufferSize |-> 0]

InitCodec ==
    /\ AllocIdle /\ SampleIdle /\ CacheIdle /\ RasterIdle /\ UiIdle
    /\ \E after \in StreamBytes, maxBufferSize \in 0 .. MaxOut :
          \/ \E raw \in SeqsUpTo(RawBytes, MaxRaw) :
                codec = CodecTask("raw", raw, <<>>, after, maxBufferSize)
          \/ \E st \in Streams :
                codec = CodecTask("stream", <<>>, st, after, maxBufferSize)

\* compress(buffer, bufferSize, compressed, maxCompressedSize, &compressedSize).
CodecCompress ==
    /\ codec.phase = "raw"
    /\ LET r == compress(codec.raw)
       IN  codec' = [codec EXCEPT !.phase = "compressed",
                                  !.status = r.status,
                                  !.compressed = r.compressed,
                                  !.compressedSize = r.compressedSize]
    /\ UNCHANGED <<allocVars, sampleVars, cacheVars, raster, uiVars>>

\* decompress(compressed, compressedSize, buffer, maxBufferSize, &bufferSize)
\* of what compress wrote (phase "compressed") or of a given stream.
CodecDecompress ==
    /\ codec.phase \in {"compressed", "stream"}
    /\ LET r == decompress(codec.compressed, codec.after, codec.maxBufferSize)
       IN  codec' = [codec EXCEPT !.phase = IF codec.phase = "compressed"
                                            THEN "restored" ELSE "decoded",
                                  !.status = r.status,
                                  !.buffer = r.buffer,
                                  !.bufferSize = r.bufferSize]
    /\ UNCHANGED <<allocVars, sampleVars, cacheVars, raster, uiVars>>

NextCodec ==
    \/ CodecCompress
    \/ CodecDecompress

SpecCodec == InitCodec /\ [][NextCodec]_vars

RECURSIVE DecodedFrom(_, _, _)
DecodedFrom(st, i, produced) ==
    IF i > Len(st) THEN produced
    ELSE LET ctrl == IF i = 1 THEN st[i] % 32 ELSE st[i]
             long == ctrl \div 32 = 7
             need == IF ctrl < 32 THEN ctrl + 1 ELSE IF long THEN 2 ELSE 1
             len  == IF ctrl < 32 THEN ctrl + 1
                     ELSE IF long THEN (ctrl \div 32) + 2 + st[i + 1]
                     ELSE (ctrl \div 32) + 2
             dist == (ctrl % 32) * 256 + st[i + need]
         IN  IF i + need > Len(st) THEN -1
             ELSE IF ctrl >= 32 /\ dist + 1 > produced THEN -1
             ELSE DecodedFrom(st, i + need + 1, produced + len)

DecodedSize(st) ==
    IF st = <<>> THEN 0
    ELSE IF st[1] \div 32 # 0 THEN -1
    ELSE DecodedFrom(st, 1, 0)

Malformed(st) == DecodedSize(st) < 0

\* C18: decompress returns failure whenever the compressed stream is
\* malformed or would decompress beyond maxBufferSize; it never reports
\* success for such a stream.
C18_BadStreamFails ==
    (/\ codec.phase = "decoded"
     /\ (Malformed(codec.compressed) \/ DecodedSize(codec.compressed) > codec.maxBufferSize))
        => codec.status = DT_FAILURE

\* C19: the compressedSize compress reports is at most
\* maxCompressedSize(n) = trunc(n * 1.05) for a raw buffer of n bytes, so an
\* output buffer of that size is not overrun.
C19_CompressedSizeWithinMax ==
    codec.phase \in {"compressed", "restored"} =>
        codec.compressedSize <= maxCompressedSize(Len(codec.raw))

(***************************************************************************)
(* rasterizeTileLayers as a state machine: one call, its arguments and the *)
(* layers the height field of the tile holds drawn at the start.           *)
(***************************************************************************)
\* RasterizationContext::tiles after the build loop has built ntiles layers:
\* slot i holds the buffer of layer i (named i + 1), the slots the constructor
\* zeroed and the loop did not reach hold no buffer.
rcBuildLayers(ntiles) ==
    [i \in 0 .. (MAX_LAYERS - 1) |-> IF i < ntiles THEN i + 1 ELSE NULL]

\* The buffers the slots of rc.tiles point to.
BuffersOf(rc) == {rc[i] : i \in DOMAIN rc} \ {NULL}

\* The number of layers the build loop stored in rc.tiles (rc.ntiles).
rcNtiles(rc) == Cardinality(BuffersOf(rc))

\* A seeded fault of the transfer loop: the slots handed over keep their
\* pointer.
rcTransfer_KeepsPointer(rc, maxTiles) ==
    LET n == rcMin(rcNtiles(rc), maxTiles)
    IN  [tiles |-> [k \in 1 .. n |-> rc[k - 1]], rc |-> rc]

\* The transfer loop: tiles[n++] = rc.tiles[i]; rc.tiles[i].data = 0 for
\* i < min(rc.ntiles, maxTiles).
rcTransfer(rc, maxTiles) ==
    LET n == rcMin(rcNtiles(rc), maxTiles)
    IN  [tiles |-> [k \in 1 .. n |-> rc[k - 1]],
         rc |-> [i \in DOMAIN rc |-> IF i < n THEN NULL ELSE rc[i]]]

\* ~RasterizationContext: dtFree(tiles[i].data) for every slot, in order; the
\* result lists the buffers freed (dtFree of a null pointer frees nothing).
rcDestroy(rc) ==
    SelectSeq([k \in 1 .. MAX_LAYERS |-> rc[k - 1]], LAMBDA b : b # NULL)

\* The steps before the layers are built at which the function returns 0.
RasterStages == {"input mesh", "heightfield", "triareas", "compact", "erode", "layers"}

InitRaster ==
    /\ AllocIdle /\ SampleIdle /\ CacheIdle /\ CodecIdle /\ UiIdle
    /\ \E nl \in 0 .. MaxRasterLayers, mt \in 0 .. MaxTilesArg,
          mi \in 0 .. (MaxMeshes - 1), tx \in 0 .. (MaxTW - 1), ty \in 0 .. (MaxTH - 1) :
          raster = [phase |-> "input", nlayers |-> nl, maxTiles |-> mt,
                    NavMeshIndex |-> mi, tx |-> tx, ty |-> ty,
                    ok |-> FALSE, n |-> 0, tiles |-> <<>>, freed |-> 0,
                    built |-> {}, returned |-> <<>>, held |-> {}, freedIds |-> <<>>]

\* A call in which every step succeeds: n tiles handed to the caller, the
\* rest of rc.tiles freed by ~RasterizationContext.
RasterizeOk ==
    /\ raster.phase = "input"
    /\ LET tiles == rasterizeTileLayers([nlayers |-> raster.nlayers], raster.NavMeshIndex,
                                        raster.tx, raster.ty, raster.maxTiles)
           rc == rcBuildLayers(rcMin(raster.nlayers, MAX_LAYERS))
           t == rcTransfer(rc, raster.maxTiles)
       IN  raster' = [raster EXCEPT !.phase = "done",
                                    !.ok = TRUE,
                                    !.n = Len(tiles),
                                    !.tiles = tiles,
                                    !.freed = rcMin(raster.nlayers, MAX_LAYERS) - Len(tiles),
                                    !.built = BuffersOf(rc),
                                    !.returned = t.tiles,
                                    !.held = BuffersOf(t.rc),
                                    !.freedIds = rcDestroy(t.rc)]
    /\ UNCHANGED <<allocVars, sampleVars, cacheVars, codec, uiVars>>

\* A call that returns 0 at a failed step, or at a failed
\* dtBuildTileCacheLayer of layer i: the layers built so far are freed.
RasterizeFail ==
    /\ raster.phase = "input"
    /\ \/ \E stage \in RasterStages :
             raster' = [raster EXCEPT !.phase = "done", !.freed = 0]
       \/ \E i \in 0 .. (rcMin(raster.nlayers, MAX_LAYERS) - 1) :
             LET rc == rcBuildLayers(i)
             IN  raster' = [raster EXCEPT !.phase = "done", !.freed = i,
                                          !.built = BuffersOf(rc),
                                          !.held = BuffersOf(rc),
                                          !.freedIds = rcDestroy(rc)]
    /\ UNCHANGED <<allocVars, sampleVars, cacheVars, codec, uiVars>>

NextRaster ==
    \/ RasterizeOk
    \/ RasterizeFail

SpecRaster == InitRaster /\ [][NextRaster]_vars

(***************************************************************************)
(* Claims about the tile rasterizer.                                       *)
(***************************************************************************)
\* C20: a successful rasterizeTileLayers returns n = min(layers found,
\* MAX_LAYERS, maxTiles) tiles, the k-th of them carrying the header
\* coordinate (tx, ty, k); the layers beyond that are dropped without error.
C20_RasterizeCapsLayers ==
    (raster.phase = "done" /\ raster.ok) =>
        /\ raster.n = Min({raster.nlayers, MAX_LAYERS, raster.maxTiles})
        /\ Len(raster.tiles) = raster.n
        /\ \A k \in 0 .. (raster.n - 1) :
               SubSeq(raster.tiles[k + 1].data, 1, 3) = <<raster.tx, raster.ty, k>>
        /\ raster.n + raster.freed = Min({raster.nlayers, MAX_LAYERS})

\* More layers found than MAX_LAYERS and less room at the caller than that.
C20_Witness ==
    /\ raster.phase = "done"
    /\ raster.ok
    /\ raster.nlayers > MAX_LAYERS
    /\ raster.maxTiles < MAX_LAYERS
    /\ raster.n = raster.maxTiles
    /\ raster.n > 1

NoDuplicates(seq) == Cardinality(Range(seq)) = Len(seq)

\* C21: every compressed buffer rasterizeTileLayers builds has exactly one
\* owner on return: the buffers returned in tiles[0..n-1] are no longer held by
\* the build context, every other buffer built (on the paths that return 0 and
\* for the layers beyond maxTiles) is freed by the context exactly once, and no
\* buffer is both returned and freed or neither.
C21_OneOwnerPerBuffer ==
    raster.phase = "done" =>
        /\ Range(raster.returned) \cap raster.held = {}
        /\ Range(raster.returned) \cap Range(raster.freedIds) = {}
        /\ Range(raster.returned) \cup Range(raster.freedIds) = raster.built
        /\ NoDuplicates(raster.returned)
        /\ NoDuplicates(raster.freedIds)
        /\ Len(raster.returned) = raster.n
        /\ ~raster.ok => raster.returned = <<>>

\* A successful call that hands some buffers to the caller and leaves others
\* to the build context.
C21_Witness ==
    /\ raster.phase = "done"
    /\ raster.ok
    /\ Len(raster.returned) > 1
    /\ Len(raster.freedIds) > 1
    /\ raster.built # {}

(***************************************************************************)
(* The tileCacheOffsets table of the export header: the loop of SaveData   *)
(* that fills it and the loop of loadAll that reads it, one pass per step. *)
(***************************************************************************)
\* int tileCacheOffsets[8] of TileCacheExportHeader.
OffsetSlots == 8

\* The largest numTileCaches a file handed to loadAll carries in this model.
MaxFileCaches == 9

\* SaveData takes its count from GetNumNavMeshes() (NavProfiles, not under
\* src/), taken here to stay within the table; loadAll takes its count from
\* the numTileCaches field of the file, which is whatever the file holds.
InitOffsets ==
    /\ AllocIdle /\ SampleIdle /\ CacheIdle /\ CodecIdle /\ RasterIdle
    /\ ToolIdle /\ DetailIdle
    /\ \/ \E n \in 0 .. OffsetSlots :
             offs = [phase |-> "loop", op |-> "SaveData", n |-> n, i |-> 0, accessed |-> {}]
       \/ \E n \in 0 .. MaxFileCaches :
             offs = [phase |-> "loop", op |-> "loadAll", n |-> n, i |-> 0, accessed |-> {}]

\* One pass of 'for (i < NumMeshes)' of SaveData:
\* NewFileHeader.tileCacheOffsets[i] = ftell(fp); ... ; fseek to it again.
SaveDataPass ==
    /\ offs.phase = "loop" /\ offs.op = "SaveData"
    /\ offs.i < offs.n
    /\ offs' = [offs EXCEPT !.accessed = @ \cup {offs.i}, !.i = @ + 1]
    /\ UNCHANGED <<allocVars, sampleVars, cacheVars, codec, raster, tool, detail>>

\* One pass of 'for (i < fileHeader.numTileCaches)' of loadAll that reaches
\* the end of the loop body or one of its 'continue' statements:
\* fseek(fp, fileHeader.tileCacheOffsets[i], SEEK_SET); ...
loadAllPass ==
    /\ offs.phase = "loop" /\ offs.op = "loadAll"
    /\ offs.i < offs.n
    /\ offs' = [offs EXCEPT !.accessed = @ \cup {offs.i}, !.i = @ + 1]
    /\ UNCHANGED <<allocVars, sampleVars, cacheVars, codec, raster, tool, detail>>

\* A pass of the loop of loadAll that ends in 'fclose(fp); return' at tile
\* data cut short.
loadAllPassReturns ==
    /\ offs.phase = "loop" /\ offs.op = "loadAll"
    /\ offs.i < offs.n
    /\ offs' = [offs EXCEPT !.accessed = @ \cup {offs.i}, !.phase = "done"]
    /\ UNCHANGED <<allocVars, sampleVars, cacheVars, codec, raster, tool, detail>>

\* The loop condition fails: the function goes on to its end.
OffsetsLoopEnds ==
    /\ offs.phase = "loop"
    /\ offs.i >= offs.n
    /\ offs' = [offs EXCEPT !.phase = "done"]
    /\ UNCHANGED <<allocVars, sampleVars, cacheVars, codec, raster, tool, detail>>

NextOffsets ==
    \/ SaveDataPass
    \/ loadAllPass
    \/ loadAllPassReturns
    \/ OffsetsLoopEnds

SpecOffsets == InitOffsets /\ [][NextOffsets]_vars

\* C28: SaveData and loadAll access the 8-entry tileCacheOffsets table only
\* at indices 0..7: neither the number of tile caches SaveData writes nor the
\* numTileCaches value loadAll takes from the file drives an index of 8 or
\* more.
C28_OffsetIndexInTable ==
    \A k \in offs.accessed : k \in 0 .. (OffsetSlots - 1)

(***************************************************************************)
(* Further claims about the LinearAllocator (specification SpecAlloc).     *)
(***************************************************************************)
\* C29: for every size of the size_t range, those for which top + size wraps
\* around included, alloc returns a block only if size <= capacity - top, so
\* the block [mem, mem + size) lies inside the buffer.
C29_BlockInsideBuffer ==
    (lastCall.op = "alloc" /\ lastCall.ok) =>
        /\ lastCall.size <= lastCall.pre.capacity - lastCall.pre.top
        /\ lastCall.pre.top + lastCall.size <= lastCall.pre.capacity

(***************************************************************************)
(* Further claims about loadAll (specification Spec).                      *)
(***************************************************************************)
\* C27: after loadAll returns, by any path, every m_navMesh, m_tileCache and
\* m_navQuery of m_NavMeshArray is null or refers to a live object.
C27_NoDanglingAfterLoad == ghost.load.done => NoDangling(ghost.load.post)

(***************************************************************************)
(* The sample under rebuilds, failed builds, clearAllTempObstacles and     *)
(* update ticks (specification SpecEdit).  The ghost holds, beside the     *)
(* fields of the sample model, what the last of these calls saw and did.   *)
(***************************************************************************)
InitEdit ==
    /\ AllocIdle /\ CacheIdle /\ CodecIdle /\ RasterIdle /\ UiIdle
    /\ NumMeshes \in 1 .. MaxMeshes
    /\ \E tw \in 1 .. MaxTW, th \in 1 .. MaxTH, nl \in 0 .. MaxLayersFound :
          m_geom = [tw |-> tw, th |-> th, nlayers |-> nl, surfTypes |-> <<0>>,
                    volumes |-> <<>>, hints |-> <<>>]
    /\ m_NavMeshArray = [i \in 0 .. (NumMeshes - 1) |->
                            [m_navMesh |-> NULL, m_tileCache |-> NULL, m_navQuery |-> NULL]]
    /\ heap = <<>>
    /\ nextId = 1
    /\ sample = [m_navMesh |-> NULL, m_tileCache |-> NULL, m_cacheLayerCount |-> 0,
                 m_cacheCompressedSize |-> 0, m_cacheRawSize |-> 0,
                 m_cacheBuildMemUsage |-> 0]
    /\ file = <<>>
    /\ ghost = [edits |-> 0, builds |-> 0, saves |-> 0, loads |-> 0,
                buildLog |-> <<>>, saved |-> NoSnapshot, intact |-> FALSE,
                load |-> NoLoad,
                rebuild |-> [done |-> FALSE], failed |-> FALSE,
                clear |-> [done |-> FALSE], tick |-> [done |-> FALSE]]

\* The connection table of the tile cache of entry i, empty without a cache.
OffMeshOf(st, i) ==
    IF st.arr[i].m_tileCache = NULL THEN <<>> ELSE st.heap[st.arr[i].m_tileCache].offMesh

\* The links of the nav mesh of entry i to off-mesh connections.
LinksOf(st, i) ==
    IF st.arr[i].m_navMesh = NULL THEN {} ELSE st.heap[st.arr[i].m_navMesh].links

\* handleBuild() once more, on a sample that has been built.
HandleRebuild ==
    /\ ghost.builds = MaxBuilds
    /\ ~ghost.rebuild.done
    /\ NoDangling(Now)
    /\ LET st == handleBuild(Now, NumMeshes, m_talloc) IN
        /\ Commit(st)
        /\ ghost' = [ghost EXCEPT
                !.buildLog = st.log,
                !.rebuild = [done |-> TRUE,
                             before |-> [i \in DOMAIN m_NavMeshArray |-> OffMeshOf(Now, i)],
                             after |-> [i \in DOMAIN m_NavMeshArray |-> OffMeshOf(st, i)],
                             links |-> [i \in DOMAIN m_NavMeshArray |-> LinksOf(st, i)]]]
    /\ UNCHANGED <<allocVars, auxVars, NumMeshes, file>>

\* handleBuild() that returns false at a failed dtAllocTileCache().
HandleBuildNoTileCache ==
    /\ ~ghost.failed
    /\ NoDangling(Now)
    /\ \E f \in DOMAIN m_NavMeshArray :
          Commit(handleBuildNoTileCache(Now, f))
    /\ ghost' = [ghost EXCEPT !.failed = TRUE]
    /\ UNCHANGED <<allocVars, auxVars, NumMeshes, file>>

\* clearAllTempObstacles(), the "Remove All" button of the obstacle tool.
ClearAllTempObstacles ==
    /\ ~ghost.clear.done
    /\ NoDangling(Now)
    /\ Commit(clearAllTempObstacles(Now))
    /\ ghost' = [ghost EXCEPT !.clear = [done |-> TRUE]]
    /\ UNCHANGED <<allocVars, auxVars, NumMeshes, file>>

\* addTempObstacle before the obstacles are cleared.
AddTempObstacleBeforeClear ==
    /\ ~ghost.clear.done
    /\ AddTempObstacle

\* handleUpdate(dt), whether or not it changes anything; the ghost keeps the
\* array the call found and the indices update was called on.
UpdateTick ==
    /\ NoDangling(Now)
    /\ LET st == handleUpdate(Now, 0, NumMeshes) IN
        /\ Commit(st)
        /\ ghost' = [ghost EXCEPT !.tick = [done |-> TRUE, arr |-> m_NavMeshArray,
                                             called |-> st.log]]
    /\ UNCHANGED <<allocVars, auxVars, NumMeshes, file>>

NextEdit ==
    \/ HandleBuild
    \/ HandleRebuild
    \/ HandleBuildNoTileCache
    \/ AddOffMeshConnection
    \/ RemoveOffMeshConnection
    \/ AddTempObstacleBeforeClear
    \/ ClearAllTempObstacles
    \/ UpdateTick

SpecEdit == InitEdit /\ [][NextEdit]_vars

(***************************************************************************)
(* Claims about rebuilds, clearing and update ticks.                       *)
(***************************************************************************)
\* What addOffMeshConnection is given for each connection of a table: end
\* points, radius, area, flags and direction.
ConDefsOf(cons) == [k \in DOMAIN cons |-> ConDef(cons[k])]

ConPresent(con) == con.state # "EMPTY"

\* C26: handleBuild carries the off-mesh connections over a rebuild: every
\* connection of the previous tile cache that is neither EMPTY nor REMOVING is
\* copied before that cache is freed and added to the new cache after its
\* initial tiles have been built, with the same end points, radius, area,
\* flags and direction; EMPTY and REMOVING connections are not carried over.
C26_RebuildCarriesConnections ==
    ghost.rebuild.done =>
        \A i \in DOMAIN ghost.rebuild.after :
            /\ ConDefsOf(SelectSeq(Elems(ghost.rebuild.after[i]), ConPresent))
                  = ConDefsOf(SelectSeq(Elems(ghost.rebuild.before[i]), ConActive))
            /\ \A k \in DOMAIN ghost.rebuild.after[i] :
                   ghost.rebuild.after[i][k].state \in {"EMPTY", "DIRTY"}
            /\ ghost.rebuild.links[i] = {}

\* A rebuild of a cache that held a connected connection, which the new cache
\* holds again.
C26_Witness ==
    /\ ghost.rebuild.done
    /\ \E i \in DOMAIN ghost.rebuild.after :
          /\ \E k \in DOMAIN ghost.rebuild.before[i] :
                 ghost.rebuild.before[i][k].state = "CONNECTED"
          /\ \E k \in DOMAIN ghost.rebuild.after[i] :
                 ghost.rebuild.after[i][k].state = "DIRTY"

\* No update is pending: a further handleUpdate changes no object.
Drained == handleUpdate(Now, 0, NumMeshes).heap = heap

\* C25: after clearAllTempObstacles and enough updates, every obstacle that
\* was created through addTempObstacle is EMPTY.
C25_ClearedObstaclesEmpty ==
    (ghost.clear.done /\ NoDangling(Now) /\ Drained) =>
        \A i \in Selectable :
            \A k \in DOMAIN SelCache(i).obstacles :
                SelCache(i).obstacles[k].state = "EMPTY"

\* The entries of the array a handleUpdate call found with both a nav mesh and
\* a tile cache.
Updatable(arr) == {i \in DOMAIN arr : arr[i].m_navMesh # NULL /\ arr[i].m_tileCache # NULL}

\* C22: a handleUpdate call invokes update exactly once on the tile cache of
\* every index below GetNumNavMeshes() that has both a nav mesh and a tile
\* cache, whatever the state of the entries at lower indices.
C22_EveryCacheUpdatedOnce ==
    ghost.tick.done =>
        /\ Range(ghost.tick.called) = Updatable(ghost.tick.arr)
        /\ NoDuplicates(ghost.tick.called)

(***************************************************************************)
(* The OffMeshConnectionTool (specification SpecTool).  The profile the    *)
(* tool looks the connection type up in (NavProfiles, not under src/) is   *)
(* drawn at the start: type k refers to area k and flag k, and a lookup at *)
(* an index outside its table returns null.                                *)
(***************************************************************************)
\* The largest number of connection types, areas and flags of a profile.
MaxConnTypes == 2

\* The points a click can hit.
ClickPoints == {1, 2}

\* m_sample->getAgentRadius()
AgentRadius == 16

\* The null pointer a lookup returns for an index outside its table.
NullDefinition == [null |-> TRUE]

\* GetConnectionAtIndex(i): a pointer to the definition, or null.
GetConnectionAtIndex(profile, i) ==
    IF i \in 0 .. (profile.types - 1)
    THEN [null |-> FALSE, AreaIndex |-> i, FlagIndex |-> i]
    ELSE NullDefinition

\* GetAreaAtIndex(i): a pointer to the definition, or null.
GetAreaAtIndex(profile, i) ==
    IF i \in 0 .. (profile.areas - 1) THEN [null |-> FALSE, AreaId |-> i + 1]
    ELSE NullDefinition

\* GetFlagAtIndex(i): a pointer to the definition, or null.
GetFlagAtIndex(profile, i) ==
    IF i \in 0 .. (profile.flags - 1) THEN [null |-> FALSE, FlagId |-> i + 1]
    ELSE NullDefinition

\* OffMeshConnectionTool::handleClick(s, p, shift): the tool after the click
\* and the calls it made on the sample.
handleClick(t, p, shift) ==
    IF ~t.m_sample THEN [t |-> t, calls |-> <<>>]
    ELSE IF ~t.geom THEN [t |-> t, calls |-> <<>>]
    ELSE IF shift
    THEN [t |-> t, calls |-> <<[op |-> "removeOffMeshConnection", p |-> p]>>]
    ELSE IF ~t.m_hitPosSet
    THEN [t |-> [t EXCEPT !.m_hitPos = p, !.m_hitPosSet = TRUE], calls |-> <<>>]
    ELSE LET SelectedConnectionType == GetConnectionAtIndex(t.profile, t.m_connIndex)
         IN  IF SelectedConnectionType.null
             THEN [t |-> [t EXCEPT !.m_connIndex = 0], calls |-> <<>>]
             ELSE LET ConnArea == GetAreaAtIndex(t.profile, SelectedConnectionType.AreaIndex)
                      ConnFlag == GetFlagAtIndex(t.profile, SelectedConnectionType.FlagIndex)
                  IN  IF ConnArea.null \/ ConnFlag.null
                      THEN [t |-> t, calls |-> <<>>]
                      ELSE [t |-> [t EXCEPT !.m_hitPosSet = FALSE],
                            calls |-> <<[op |-> "addOffMeshConnection",
                                         spos |-> t.m_hitPos, epos |-> p,
                                         rad |-> AgentRadius,
                                         area |-> ConnArea.AreaId,
                                         flags |-> ConnFlag.FlagId,
                                         bBiDir |-> IF t.m_bidir THEN 1 ELSE 0]>>]

\* The tool as constructed: m_sample(0), m_hitPosSet(0), m_bidir(true); the
\* constructor gives m_connIndex and m_hitPos no value, so they hold any.
InitTool ==
    /\ AllocIdle /\ SampleIdle /\ CacheIdle /\ CodecIdle /\ RasterIdle
    /\ DetailIdle /\ OffsIdle
    /\ \E geom \in BOOLEAN, types, areas, flags \in 0 .. MaxConnTypes,
          connIndex \in -1 .. MaxConnTypes, hitPos \in ClickPoints :
          tool = [phase |-> "constructed",
                  profile |-> [types |-> types, areas |-> areas, flags |-> flags],
                  geom |-> geom,
                  m_sample |-> FALSE, m_hitPosSet |-> FALSE, m_hitPos |-> hitPos,
                  m_bidir |-> TRUE, m_connIndex |-> connIndex,
                  last |-> [op |-> "none"]]

\* init(sample): the tool is bound to the sample.
ToolInit ==
    /\ tool.phase # "idle"
    /\ ~tool.m_sample
    /\ tool' = [tool EXCEPT !.m_sample = TRUE, !.last = [op |-> "init"]]
    /\ UNCHANGED <<allocVars, sampleVars, cacheVars, codec, raster, detail, offs>>

\* reset()
ToolReset ==
    /\ tool.phase # "idle"
    /\ tool' = [tool EXCEPT !.m_hitPosSet = FALSE, !.last = [op |-> "reset"]]
    /\ UNCHANGED <<allocVars, sampleVars, cacheVars, codec, raster, detail, offs>>

\* handleMenu(), the user checking "One Way" or "Bidirectional".
ToolMenuDirection ==
    /\ tool.phase # "idle"
    /\ \E b \in BOOLEAN :
          tool' = [tool EXCEPT !.m_bidir = b, !.last = [op |-> "menu"]]
    /\ UNCHANGED <<allocVars, sampleVars, cacheVars, codec, raster, detail, offs>>

\* handleMenu(), the user checking one of the connection types listed.
ToolMenuType ==
    /\ tool.phase # "idle"
    /\ \E thisIndex \in 0 .. (tool.profile.types - 1) :
          tool' = [tool EXCEPT !.m_connIndex = thisIndex, !.last = [op |-> "menu"]]
    /\ UNCHANGED <<allocVars, sampleVars, cacheVars, codec, raster, detail, offs>>

\* handleClick(s, p, shift); the ghost keeps the tool before the click, the
\* arguments and the calls made on the sample.
ToolClick ==
    /\ tool.phase # "idle"
    /\ \E p \in ClickPoints, shift \in BOOLEAN :
          LET r == handleClick(tool, p, shift)
          IN  tool' = [r.t EXCEPT !.last = [op |-> "click", p |-> p, shift |-> shift,
                                            pre |-> [tool EXCEPT !.last = [op |-> "none"]],
                                            calls |-> r.calls]]
    /\ UNCHANGED <<allocVars, sampleVars, cacheVars, codec, raster, detail, offs>>

NextTool ==
    \/ ToolInit
    \/ ToolReset
    \/ ToolMenuDirection
    \/ ToolMenuType
    \/ ToolClick

SpecTool == InitTool /\ [][NextTool]_vars

\* C23: with a start point pending and a sample with geometry, a click
\* without shift finishes the connection: addOffMeshConnection is called once
\* with the stored start point and the clicked point as end, and the pending
\* start is cleared; with no start pending such a click only stores the start
\* and creates nothing.
C23_ClickFinishesConnection ==
    (/\ tool.phase # "idle"
     /\ tool.last.op = "click"
     /\ tool.last.pre.m_sample /\ tool.last.pre.geom
     /\ ~tool.last.shift) =>
        IF tool.last.pre.m_hitPosSet
        THEN /\ Len(tool.last.calls) = 1
             /\ tool.last.calls[1].op = "addOffMeshConnection"
             /\ tool.last.calls[1].spos = tool.last.pre.m_hitPos
             /\ tool.last.calls[1].epos = tool.last.p
             /\ ~tool.m_hitPosSet
        ELSE /\ tool.last.calls = <<>>
             /\ tool.m_hitPosSet
             /\ tool.m_hitPos = tool.last.p

(***************************************************************************)
(* drawDetail (specification SpecDetail): the loop over the layers of one  *)
(* tile coordinate, a step per stage of its body.  The log lists the       *)
(* events on the scratch allocator and on the structures of the            *)
(* TileCacheBuildContext bc: reset, alloc, use, free, each with the index  *)
(* of the tile the loop is at.                                             *)
(***************************************************************************)
\* The largest number of tiles getTilesAt returns in this model.
MaxDetailTiles == 3

DrawDetailTypes == {"DRAWDETAIL_AREAS", "DRAWDETAIL_REGIONS", "DRAWDETAIL_CONTOURS",
                    "DRAWDETAIL_MESH"}

\* One event of tile i on structure what ("talloc" for the allocator itself).
DetailEvent(ev, i, what) == [ev |-> ev, tile |-> i, what |-> what]

\* The structures of bc in the order purge() frees them.
BcOrder == <<"layer", "lcset", "lmesh">>

\* A seeded fault of purge(): the layer is not released.
purge_KeepsLayer(d) ==
    LET held == SelectSeq(BcOrder, LAMBDA w : w \in d.bc /\ w # "layer")
    IN  [d EXCEPT !.bc = d.bc \cap {"layer"},
                  !.log = @ \o [k \in 1 .. Len(held) |-> DetailEvent("free", d.bcTile, held[k])]]

\* TileCacheBuildContext::purge(): dtFreeTileCacheLayer, ...ContourSet and
\* ...PolyMesh on the structures bc holds.
purge(d) ==
    LET held == SelectSeq(BcOrder, LAMBDA w : w \in d.bc)
    IN  [d EXCEPT !.bc = {},
                  !.log = @ \o [k \in 1 .. Len(held) |-> DetailEvent("free", d.bcTile, held[k])]]

\* bc.<what> is allocated from talloc for the tile the loop is at.
DetailAlloc(d, what) ==
    [d EXCEPT !.bc = @ \cup {what}, !.bcTile = d.i,
              !.log = Append(@, DetailEvent("alloc", d.i, what))]

\* A build or draw call reads or writes bc.<what>.
DetailUse(d, what) == [d EXCEPT !.log = Append(@, DetailEvent("use", d.bcTile, what))]

\* 'continue' or the end of the loop body: bc goes out of scope, ++i.
DetailContinue(d) == [purge(d) EXCEPT !.i = d.i + 1, !.pc = "top"]

\* 'return' inside the loop body: bc goes out of scope, the function ends.
DetailReturn(d) == [purge(d) EXCEPT !.phase = "done"]

InitDetail ==
    /\ AllocIdle /\ SampleIdle /\ CacheIdle /\ CodecIdle /\ RasterIdle
    /\ ToolIdle /\ OffsIdle
    /\ \E ntiles \in 0 .. MaxDetailTiles, type \in DrawDetailTypes \cup {"other"} :
          detail = [phase |-> "run", ntiles |-> ntiles, type |-> type, i |-> 0, pc |-> "top",
                    bc |-> {}, bcTile |-> 0, log |-> <<>>]

\* The head of the loop body: getTileByRef, talloc->reset(), bc constructed.
DetailReset ==
    /\ detail.phase = "run" /\ detail.pc = "top"
    /\ detail.i < detail.ntiles
    /\ detail' = [detail EXCEPT !.pc = "decompress", !.bcTile = detail.i,
                                 !.log = Append(@, DetailEvent("reset", detail.i, "talloc"))]
    /\ UNCHANGED <<allocVars, sampleVars, cacheVars, codec, raster, tool, offs>>

\* The loop condition fails: drawDetail ends.
DetailLoopEnds ==
    /\ detail.phase = "run" /\ detail.pc = "top"
    /\ detail.i >= detail.ntiles
    /\ detail' = [detail EXCEPT !.phase = "done"]
    /\ UNCHANGED <<allocVars, sampleVars, cacheVars, codec, raster, tool, offs>>

\* dtDecompressTileCacheLayer into bc.layer, then the AREAS drawing.
DetailDecompress ==
    /\ detail.phase = "run" /\ detail.pc = "decompress"
    /\ \E ok \in BOOLEAN :
          detail' = IF ~ok THEN DetailReturn(detail)
                    ELSE LET d == DetailAlloc(detail, "layer")
                         IN  IF detail.type = "DRAWDETAIL_AREAS"
                             THEN DetailContinue(DetailUse(d, "layer"))
                             ELSE [d EXCEPT !.pc = "regions"]
    /\ UNCHANGED <<allocVars, sampleVars, cacheVars, codec, raster, tool, offs>>

\* dtBuildTileCacheRegions on bc.layer, then the REGIONS drawing.
DetailRegions ==
    /\ detail.phase = "run" /\ detail.pc = "regions"
    /\ \E ok \in BOOLEAN :
          detail' = LET d == DetailUse(detail, "layer")
                    IN  IF ~ok THEN DetailReturn(d)
                        ELSE IF detail.type = "DRAWDETAIL_REGIONS"
                        THEN DetailContinue(DetailUse(d, "layer"))
                        ELSE [d EXCEPT !.pc = "contours"]
    /\ UNCHANGED <<allocVars, sampleVars, cacheVars, codec, raster, tool, offs>>

\* dtAllocTileCacheContourSet, dtBuildTileCacheContours, then the CONTOURS
\* drawing.
DetailContours ==
    /\ detail.phase = "run" /\ detail.pc = "contours"
    /\ \E allocated, ok \in BOOLEAN :
          detail' = IF ~allocated THEN DetailReturn(detail)
                    ELSE LET d == DetailUse(DetailUse(DetailAlloc(detail, "lcset"), "layer"),
                                            "lcset")
                         IN  IF ~ok THEN DetailReturn(d)
                             ELSE IF detail.type = "DRAWDETAIL_CONTOURS"
                             THEN DetailContinue(DetailUse(d, "lcset"))
                             ELSE [d EXCEPT !.pc = "mesh"]
    /\ UNCHANGED <<allocVars, sampleVars, cacheVars, codec, raster, tool, offs>>

\* dtAllocTileCachePolyMesh, dtBuildTileCachePolyMesh, then the MESH drawing
\* and the end of the loop body.
DetailPolyMesh ==
    /\ detail.phase = "run" /\ detail.pc = "mesh"
    /\ \E allocated, ok \in BOOLEAN :
          detail' = IF ~allocated THEN DetailReturn(detail)
                    ELSE LET d == DetailUse(DetailUse(DetailAlloc(detail, "lmesh"), "lcset"),
                                            "lmesh")
                         IN  IF ~ok THEN DetailReturn(d)
                             ELSE IF detail.type = "DRAWDETAIL_MESH"
                             THEN DetailContinue(DetailUse(d, "lmesh"))
                             ELSE DetailContinue(d)
    /\ UNCHANGED <<allocVars, sampleVars, cacheVars, codec, raster, tool, offs>>

NextDetail ==
    \/ DetailReset
    \/ DetailLoopEnds
    \/ DetailDecompress
    \/ DetailRegions
    \/ DetailContours
    \/ DetailPolyMesh

SpecDetail == InitDetail /\ [][NextDetail]_vars

\* The positions of the log at which the allocator is reset.
DetailResets == {j \in DOMAIN detail.log : detail.log[j].ev = "reset"}

\* C24: in the per-tile loop of drawDetail the allocator is reset once at the
\* start of each tile, before that tile's first allocation and after every
\* intermediate structure of the previous tile has been released; no structure
\* allocated for one tile is used after the reset of the next.
C24_ResetBetweenTiles ==
    detail.phase # "idle" =>
        LET log == detail.log IN
        /\ \A k \in DOMAIN log : \E j \in DetailResets : j <= k /\ log[j].tile = log[k].tile
        /\ \A j \in DetailResets :
               /\ \A k \in 1 .. (j - 1) : log[k].tile # log[j].tile
               /\ \A k \in 1 .. (j - 1) :
                      log[k].ev = "alloc" =>
                          \E f \in (k + 1) .. (j - 1) :
                              /\ log[f].ev = "free"
                              /\ log[f].tile = log[k].tile
                              /\ log[f].what = log[k].what
               /\ \A k \in (j + 1) .. Len(log) : log[k].tile >= log[j].tile

\* A call that went through two tiles up to the polygon mesh: the second
\* reset follows the release of the three structures of the first tile.
C24_Witness ==
    /\ detail.phase = "done"
    /\ detail.type = "DRAWDETAIL_MESH"
    /\ Cardinality(DetailResets) >= 2
    /\ \E k \in DOMAIN detail.log :
          detail.log[k] = DetailEvent("use", 1, "lmesh")
    /\ \E k \in DOMAIN detail.log :
          detail.log[k] = DetailEvent("free", 0, "lmesh")

====
